---- MODULE Spec2Model ----
(***************************************************************************)
(* The per-user knowledge graph store of api/models/kGraph.js: the KGraph  *)
(* collection, the handlers that mutate it, and the calls they make to the *)
(* embedding / clustering service.                                         *)
(*                                                                         *)
(* A handler is an async function: it runs atomically between two awaits.  *)
(* Every await on the document store or on the embedding service is one    *)
(* step of the model, so that the steps of concurrent handlers interleave  *)
(* exactly where the event loop can interleave them.                       *)
(*                                                                         *)
(* graph.save() persists what the handler modified on the loaded document  *)
(* (Mongoose sends the modified paths: a push on nodes or edges is sent as *)
(* $push, a pull as $pull, an assignment to a field of a subdocument as a  *)
(* $set on its positional path).  No lock and no version token guards the  *)
(* load / modify / save cycle.                                             *)
(***************************************************************************)
EXTENDS Integers, Sequences, FiniteSets, TLC

\* ------------------------------------------------------------------ bounds
\* number of requests of a behaviour; request r runs in slot r
MaxReq == 2

\* ------------------------------------------------------- program constants
ScaleFactor == 250

Users == {"u1", "u2"}
Reqs == 1..MaxReq
Null == "null"

\* ------------------------------------------------------------------ values
\* A label argument as JavaScript sees it: undefined, a string or an array.
LUndef == [k |-> "undef", s |-> "", a |-> <<>>]
LStr(s) == [k |-> "str", s |-> s, a |-> <<>>]
LArr(a) == [k |-> "arr", s |-> "", a |-> a]

SeqToSet(s) == {s[i] : i \in 1..Len(s)}
Includes(s, e) == \E i \in 1..Len(s) : s[i] = e
NoDup(s) == \A i, j \in 1..Len(s) : s[i] = s[j] => i = j

\* mutant of FilterSeq: the strategy's output is returned as it came
FilterSeqNone(s, keep) == s

RECURSIVE FilterSeq(_, _)
\* Array.prototype.filter with the membership test of a Set
FilterSeq(s, keep) ==
    IF s = <<>> THEN <<>>
    ELSE IF Head(s) \in keep THEN <<Head(s)>> \o FilterSeq(Tail(s), keep)
         ELSE FilterSeq(Tail(s), keep)

\* ----------------------------------------------------------------- schema
NewNodeDoc(id, content, label, x, y, smid, scid) ==
    [id |-> id, content |-> content, label |-> label, x |-> x, y |-> y,
     smid |-> smid, scid |-> scid, updatedAt |-> 0]

NewEdgeDoc(id, source, target, label) ==
    [id |-> id, source |-> source, target |-> target, label |-> label]

NewGraphDoc(id, userId) ==
    [docId |-> id, userId |-> userId, nodes |-> <<>>, edges |-> <<>>]

NoDoc == NewGraphDoc(0, "")

NodeIds(d) == {d.nodes[i].id : i \in 1..Len(d.nodes)}
EdgeIds(d) == {d.edges[i].id : i \in 1..Len(d.edges)}


\* Mongoose's DocumentArray.id(): the position of the first subdocument with
\* that id, 0 when there is none.
IndexOfNode(d, id) ==
    IF id \in NodeIds(d)
    THEN CHOOSE i \in 1..Len(d.nodes) :
            d.nodes[i].id = id /\ \A j \in 1..(i - 1) : d.nodes[j].id # id
    ELSE 0

\* graph.edges.find((e) => e.source === source && e.target === target)
IndexOfEdge(d, source, target) ==
    IF \E i \in 1..Len(d.edges) : d.edges[i].source = source /\ d.edges[i].target = target
    THEN CHOOSE i \in 1..Len(d.edges) :
            /\ d.edges[i].source = source /\ d.edges[i].target = target
            /\ \A j \in 1..(i - 1) :
                  ~(d.edges[j].source = source /\ d.edges[j].target = target)
    ELSE 0

\* -------------------------------------------------------- message store
\* The messages of the import subsystem and their candidate ("scratch")
\* nodes.  Only the isCurated flag of a candidate changes.
Messages ==
    << [messageId |-> "m1", user |-> "u1", conversationId |-> "k1",
       nodes |-> << [id |-> 101, content |-> "c1", label |-> "a", x |-> 1, y |-> 2],
                    [id |-> 102, content |-> "", label |-> "", x |-> 0, y |-> 0] >>],
      [messageId |-> "m2", user |-> "u2", conversationId |-> "k2",
       nodes |-> << [id |-> 103, content |-> "c2", label |-> "b", x |-> 0, y |-> 0] >>] >>

CandidateIds(m) == {m.nodes[i].id : i \in 1..Len(m.nodes)}

\* ------------------------------------------------------------- requests
NoArgs ==
    [given |-> {}, nodeId |-> 0, nodeIds |-> <<>>, source |-> 0, target |-> 0,
     label |-> LUndef, labels |-> LUndef, x |-> 0, y |-> 0, content |-> "",
     smid |-> Null, scid |-> Null, conv |-> Null, method |-> ""]

NoRes == [nodes |-> <<>>, edges |-> <<>>, ids |-> <<>>, count |-> 0, umap |-> <<>>]

IdleReq ==
    [pc |-> "idle", op |-> "none", user |-> "", a |-> NoArgs,
     pre |-> NoDoc, quiet |-> TRUE, graph |-> NoDoc, mem |-> NoDoc, time |-> 0,
     out |-> "none", res |-> NoRes,
     storeErr |-> FALSE, peerErr |-> FALSE, calls |-> <<>>,
     recs |-> <<>>, badRecs |-> FALSE, umap |-> <<>>,
     cur |-> {}, pend |-> {}, fail |-> FALSE]

VARIABLES
    docs,      \* the KGraph collection: a set of graph documents
    curated,   \* ids of the message candidates whose isCurated flag is set
    index,     \* the embedding service: per user, the vectors it holds
    req,       \* the handlers in flight, one per request slot
    nextId,    \* ObjectId generator: ids are never reused
    now        \* the clock read by new Date()

vars == <<docs, curated, index, req, nextId, now>>

\* KGraph.findOne({ userId }): the first matching document in natural order
HasDoc(u) == \E d \in docs : d.userId = u

\* mutant of FindOne: the query carries no userId filter
FindOneAny(u) ==
    IF HasDoc(u)
    THEN CHOOSE d \in docs : \A e \in docs : d.docId <= e.docId
    ELSE NoDoc

FindOne(u) ==
    IF HasDoc(u)
    THEN CHOOSE d \in docs :
            d.userId = u /\ \A e \in docs : e.userId = u => d.docId <= e.docId
    ELSE NoDoc

\* the persisted document a loaded document was read from, NoDoc once deleted
Persisted(g) ==
    IF \E d \in docs : d.docId = g.docId
    THEN CHOOSE d \in docs : d.docId = g.docId
    ELSE NoDoc


\* ------------------------------------------------ in-memory computations
\* mutant of NormalizeLabel: every string is wrapped, the empty one included
NormalizeLabelWrap(l) ==
    IF l.k = "arr" THEN l.a
    ELSE IF l.k = "str" THEN <<l.s>>
    ELSE <<>>

\* createNode, createEdge: "normalize label to an array"
NormalizeLabel(l) ==
    IF l.k = "arr" THEN l.a
    ELSE IF l.k = "str" /\ l.s # "" THEN <<l.s>>
    ELSE <<>>

\* updateNode: Array.isArray(labels) ? labels : [labels]
WrapLabel(l) == IF l.k = "arr" THEN l.a ELSE <<l.s>>

\* updateEdge: the label array is replaced
ReplaceLabel(l) ==
    IF l.k = "arr" THEN l.a
    ELSE IF l.k = "str" THEN <<l.s>>
    ELSE <<>>

RECURSIVE MergeLabels(_, _)
\* createEdge: for (const l of labelArr) if (!edge.label.includes(l)) edge.label.push(l)
MergeLabels(old, new) ==
    IF new = <<>> THEN old
    ELSE IF Includes(old, Head(new)) THEN MergeLabels(old, Tail(new))
         ELSE MergeLabels(Append(old, Head(new)), Tail(new))

\* mutant of GraphView: an edge is kept when one of its endpoints is kept
GraphViewAnyEndpoint(g, conv) ==
    LET truthy == conv # Null /\ conv # ""
        ns == IF truthy THEN SelectSeq(g.nodes, LAMBDA n : n.scid = conv) ELSE g.nodes
        nodeIdSet == {ns[i].id : i \in 1..Len(ns)}
        es == IF truthy
              THEN SelectSeq(g.edges,
                             LAMBDA e : e.source \in nodeIdSet \/ e.target \in nodeIdSet)
              ELSE g.edges
    IN  [NoRes EXCEPT !.nodes = ns, !.edges = es]

\* getGraph: the nodes of a conversation (all nodes without a conversationId)
\* and the edges between them
GraphView(g, conv) ==
    LET truthy == conv # Null /\ conv # ""
        ns == IF truthy THEN SelectSeq(g.nodes, LAMBDA n : n.scid = conv) ELSE g.nodes
        nodeIdSet == {ns[i].id : i \in 1..Len(ns)}
        es == IF truthy
              THEN SelectSeq(g.edges,
                             LAMBDA e : e.source \in nodeIdSet /\ e.target \in nodeIdSet)
              ELSE g.edges
    IN  [NoRes EXCEPT !.nodes = ns, !.edges = es]

\* createNode: source_message_id || null, source_conversation_id || null;
\* the empty string is falsy and becomes null
OrNull(v) == IF v = "" THEN Null ELSE v

\* mutant of CreateNodeMem: the id of the new node is its position in the array
CreateNodeMemByIndex(g, a, id) ==
    [g EXCEPT !.nodes =
        Append(@, NewNodeDoc(Len(g.nodes) + 1, a.content, NormalizeLabel(a.label),
                             a.x, a.y, OrNull(a.smid), OrNull(a.scid)))]

\* createNode up to graph.nodes.push(newNode)
CreateNodeMem(g, a, id) ==
    [g EXCEPT !.nodes =
        Append(@, NewNodeDoc(id, a.content, NormalizeLabel(a.label), a.x, a.y,
                             OrNull(a.smid), OrNull(a.scid)))]

\* mutant of UpdateNodeFields: every field is assigned from the arguments
UpdateNodeFieldsOverwrite(n, a) ==
    [n EXCEPT
       !.label = IF "labels" \in a.given THEN WrapLabel(a.labels)
                 ELSE IF "label" \in a.given THEN WrapLabel(a.label)
                 ELSE <<>>,
       !.x = a.x, !.y = a.y, !.content = a.content, !.smid = a.smid, !.scid = a.scid]

\* updateNode: "update only the supplied fields"
UpdateNodeFields(n, a) ==
    [n EXCEPT
       !.label = IF "labels" \in a.given THEN WrapLabel(a.labels)
                 ELSE IF "label" \in a.given THEN WrapLabel(a.label)
                 ELSE @,
       !.x = IF "x" \in a.given THEN a.x ELSE @,
       !.y = IF "y" \in a.given THEN a.y ELSE @,
       !.content = IF "content" \in a.given THEN a.content ELSE @,
       !.smid = IF "smid" \in a.given THEN a.smid ELSE @,
       !.scid = IF "scid" \in a.given THEN a.scid ELSE @]

\* updateNode up to graph.save(); nothing is assigned when the node is missing
UpdateNodeMem(g, a) ==
    IF IndexOfNode(g, a.nodeId) = 0 THEN g
    ELSE [g EXCEPT !.nodes[IndexOfNode(g, a.nodeId)] = UpdateNodeFields(@, a)]


\* mutant of TouchEndpoints: only the source node is refreshed
TouchSource(g, source, target, time) ==
    LET si == IndexOfNode(g, source)
    IN  [g EXCEPT !.nodes =
            [i \in 1..Len(g.nodes) |->
                IF i = si THEN [g.nodes[i] EXCEPT !.updatedAt = time]
                ELSE g.nodes[i]]]

\* createEdge, updateEdge, deleteEdge: updatedAt of the endpoint nodes
TouchEndpoints(g, source, target, time) ==
    LET si == IndexOfNode(g, source)
        ti == IndexOfNode(g, target)
    IN  [g EXCEPT !.nodes =
            [i \in 1..Len(g.nodes) |->
                IF i = si \/ i = ti THEN [g.nodes[i] EXCEPT !.updatedAt = time]
                ELSE g.nodes[i]]]

\* createEdge up to graph.save()
CreateEdgeMem(g, a, id, time) ==
    LET ei == IndexOfEdge(g, a.source, a.target)
        labelArr == NormalizeLabel(a.label)
        g1 == IF ei # 0
              THEN [g EXCEPT !.edges[ei].label = MergeLabels(@, labelArr)]
              ELSE [g EXCEPT !.edges =
                       Append(@, NewEdgeDoc(id, a.source, a.target, labelArr))]
    IN  TouchEndpoints(g1, a.source, a.target, time)

\* mutant of UpdateEdgeMem: the new labels are merged into the stored ones
UpdateEdgeMemMerge(g, a, time) ==
    LET ei == IndexOfEdge(g, a.source, a.target)
    IN  TouchEndpoints([g EXCEPT !.edges[ei].label = MergeLabels(@, ReplaceLabel(a.label))],
                       a.source, a.target, time)

\* updateEdge up to graph.save()
UpdateEdgeMem(g, a, time) ==
    LET ei == IndexOfEdge(g, a.source, a.target)
    IN  TouchEndpoints([g EXCEPT !.edges[ei].label = ReplaceLabel(a.label)],
                       a.source, a.target, time)

\* graph.edges.pull({ _id })
PullEdges(es, ids) == SelectSeq(es, LAMBDA e : e.id \notin ids)


\* mutant of DeleteEdgeMem: every edge that touches an endpoint of the pair is pulled
DeleteEdgeMemIncident(g, a, time) ==
    LET g1 == TouchEndpoints(g, a.source, a.target, time)
    IN  [g1 EXCEPT !.edges =
            SelectSeq(@, LAMBDA e : {e.source, e.target} \cap {a.source, a.target} = {})]

\* deleteEdge up to graph.save()
DeleteEdgeMem(g, a, time) ==
    LET ei == IndexOfEdge(g, a.source, a.target)
        g1 == TouchEndpoints(g, a.source, a.target, time)
    IN  [g1 EXCEPT !.edges = PullEdges(@, {g.edges[ei].id})]

RECURSIVE CalculateClusterMemAbort(_, _)
\* mutant of CalculateClusterMem: the loop stops at the first id that is not
\* in the document
CalculateClusterMemAbort(g, umapData) ==
    IF umapData = <<>> THEN g
    ELSE LET item == Head(umapData)
             ni == IndexOfNode(g, item.id)
         IN  IF ni = 0 THEN g
             ELSE CalculateClusterMemAbort(
                     [g EXCEPT !.nodes[ni].x = item.x * ScaleFactor,
                               !.nodes[ni].y = item.y * ScaleFactor],
                     Tail(umapData))


\* mutant of CalculateClusterMem: the layout is rebuilt from the response, a
\* node the response does not name goes back to the origin
CalculateClusterMemReset(g, umapData) ==
    [g EXCEPT !.nodes =
        [i \in 1..Len(g.nodes) |->
            LET hits == {k \in 1..Len(umapData) : umapData[k].id = g.nodes[i].id}
            IN  IF hits = {} THEN [g.nodes[i] EXCEPT !.x = 0, !.y = 0]
                ELSE LET k == CHOOSE h \in hits : \A j \in hits : j <= h
                     IN  [g.nodes[i] EXCEPT !.x = umapData[k].x * ScaleFactor,
                                            !.y = umapData[k].y * ScaleFactor]]]

RECURSIVE CalculateClusterMem(_, _)
\* calculateCluster: for (const item of umapData) { node.x = item.x * 250 ... }
CalculateClusterMem(g, umapData) ==
    IF umapData = <<>> THEN g
    ELSE LET item == Head(umapData)
             ni == IndexOfNode(g, item.id)
             g1 == IF ni # 0
                   THEN [g EXCEPT !.nodes[ni].x = item.x * ScaleFactor,
                                  !.nodes[ni].y = item.y * ScaleFactor]
                   ELSE g
         IN  CalculateClusterMem(g1, Tail(umapData))


\* ------------------------------------------------------------ importNodes
DefaultContent == "new node"

\* Message.find({ 'nodes._id': { $in: nodeIds }, user: userId })
MessageFind(u, nodeIds) ==
    SelectSeq(Messages,
              LAMBDA m : m.user = u /\ CandidateIds(m) \cap SeqToSet(nodeIds) # {})

\* the requested candidates of one message, as graph nodes without an id
NewNodesOf(m, nodeIds) ==
    LET sel == SelectSeq(m.nodes, LAMBDA n : Includes(nodeIds, n.id))
    IN  [i \in 1..Len(sel) |->
            NewNodeDoc(0,
                       IF sel[i].content # "" THEN sel[i].content
                       ELSE IF sel[i].label # "" THEN sel[i].label
                       ELSE DefaultContent,
                       IF sel[i].label # "" THEN <<sel[i].label>> ELSE <<>>,
                       sel[i].x, sel[i].y, m.messageId, m.conversationId)]

RECURSIVE NewNodes(_, _)
NewNodes(messages, nodeIds) ==
    IF messages = <<>> THEN <<>>
    ELSE NewNodesOf(Head(messages), nodeIds) \o NewNodes(Tail(messages), nodeIds)

\* the candidates of a message that importNodes flags: requested and not yet curated
Flagged(m, nodeIds, cur) == (CandidateIds(m) \cap SeqToSet(nodeIds)) \ cur

\* importNodes up to graph.nodes.push(...newNodes): the subdocuments get their ids
ImportNodesMem(g, newNodes, firstId) ==
    [g EXCEPT !.nodes =
        @ \o [i \in 1..Len(newNodes) |-> [newNodes[i] EXCEPT !.id = firstId + i - 1]]]

\* graph.nodes.slice(-newNodes.length): slice(-0) is the whole array
AddedNodes(m, n) ==
    IF n = 0 THEN m.nodes ELSE SubSeq(m.nodes, Len(m.nodes) - n + 1, Len(m.nodes))

\* ------------------------------------------------------------ graph.save()
NodeFields == {"content", "label", "x", "y", "smid", "scid", "updatedAt"}

ChangedFields(n, m) ==
    {f \in NodeFields :
        \/ f = "content" /\ n.content # m.content
        \/ f = "label" /\ n.label # m.label
        \/ f = "x" /\ n.x # m.x
        \/ f = "y" /\ n.y # m.y
        \/ f = "smid" /\ n.smid # m.smid
        \/ f = "scid" /\ n.scid # m.scid
        \/ f = "updatedAt" /\ n.updatedAt # m.updatedAt}

SetFields(n, f, v) ==
    [n EXCEPT !.content = IF "content" \in f THEN v.content ELSE @,
              !.label = IF "label" \in f THEN v.label ELSE @,
              !.x = IF "x" \in f THEN v.x ELSE @,
              !.y = IF "y" \in f THEN v.y ELSE @,
              !.smid = IF "smid" \in f THEN v.smid ELSE @,
              !.scid = IF "scid" \in f THEN v.scid ELSE @,
              !.updatedAt = IF "updatedAt" \in f THEN v.updatedAt ELSE @]

\* What save() sends for a document loaded as g and modified in memory to m:
\* the fields set on loaded nodes (by position), the pushed nodes and edges,
\* the pulled edges, and for the edge at position ei the labels pushed on it
\* (createEdge) or its replaced label array (updateEdge).
Delta(g, m, ei, labelOp) ==
    [setNodes |-> {[idx |-> i, f |-> ChangedFields(g.nodes[i], m.nodes[i]), v |-> m.nodes[i]] :
                      i \in {j \in 1..Len(g.nodes) : g.nodes[j] # m.nodes[j]}},
     pushNodes |-> SubSeq(m.nodes, Len(g.nodes) + 1, Len(m.nodes)),
     pushEdges |-> IF Len(m.edges) > Len(g.edges)
                   THEN SubSeq(m.edges, Len(g.edges) + 1, Len(m.edges)) ELSE <<>>,
     pullEdges |-> EdgeIds(g) \ EdgeIds(m),
     ei |-> IF labelOp # "none" /\ g.edges[ei].label # m.edges[ei].label THEN ei ELSE 0,
     labelOp |-> labelOp,
     label |-> IF labelOp = "push"
               THEN SubSeq(m.edges[ei].label, Len(g.edges[ei].label) + 1,
                           Len(m.edges[ei].label))
               ELSE IF labelOp = "set" THEN m.edges[ei].label
               ELSE <<>>]

IsEmptyDelta(dl) ==
    /\ dl.setNodes = {} /\ dl.pushNodes = <<>> /\ dl.pushEdges = <<>>
    /\ dl.pullEdges = {} /\ dl.ei = 0

\* The update applied to the persisted document d.  A positional path that
\* lies beyond the persisted array touches none of its elements.
ApplyDelta(d, dl) ==
    LET nodes1 == [i \in 1..Len(d.nodes) |->
                     IF \E s \in dl.setNodes : s.idx = i
                     THEN LET s == CHOOSE s \in dl.setNodes : s.idx = i
                          IN  SetFields(d.nodes[i], s.f, s.v)
                     ELSE d.nodes[i]]
        edges1 == [i \in 1..Len(d.edges) |->
                     IF i = dl.ei
                     THEN [d.edges[i] EXCEPT !.label =
                              IF dl.labelOp = "push" THEN @ \o dl.label ELSE dl.label]
                     ELSE d.edges[i]]
    IN  [d EXCEPT !.nodes = nodes1 \o dl.pushNodes,
                  !.edges = PullEdges(edges1, dl.pullEdges) \o dl.pushEdges]


\* ------------------------------------------------------ embedding service
IndexEntry(id, kind, content, label) ==
    [id |-> id, kind |-> kind, content |-> content, label |-> label]

NodeEntry(n) == IndexEntry(n.id, "node", n.content, LUndef)

PeerCall(kind, ids, entries) == [kind |-> kind, ids |-> ids, entries |-> entries]

\* what a successful call leaves in the vectors the service holds for a user
PeerApply(ix, call) ==
    IF call.kind \in {"embed_node", "embed_edge"}
    THEN {e \in ix : \A i \in 1..Len(call.entries) : call.entries[i].id # e.id}
            \cup SeqToSet(call.entries)
    ELSE IF call.kind = "delete" THEN {e \in ix : e.id \notin SeqToSet(call.ids)}
    ELSE IF call.kind = "reset" THEN {}
    ELSE ix

\* createEdge: label: label || ''
CreateEdgePayloadLabel(l) ==
    IF l.k = "undef" \/ (l.k = "str" /\ l.s = "") THEN LStr("") ELSE l

\* updateEdge: label: (Array.isArray(label) ? label[0] : label) || ''
UpdateEdgePayloadLabel(l) ==
    IF l.k = "arr" THEN (IF Len(l.a) > 0 THEN LStr(l.a[1]) ELSE LStr(""))
    ELSE IF l.k = "str" THEN LStr(l.s)
    ELSE LStr("")

\* ------------------------------------------------------- handler outcomes
Returned(q, res) == [q EXCEPT !.pc = "done", !.out = "ok", !.res = res]

Threw(q) == [q EXCEPT !.pc = "done", !.out = "threw"]

\* mutant of OnStoreError: the catch block of getRecommendations rethrows
OnStoreErrorRethrow(q) ==
    LET e == [q EXCEPT !.storeErr = TRUE]
    IN  IF q.op = "getGraph" THEN [e EXCEPT !.pc = "done", !.out = "undefined"]
        ELSE Threw(e)

\* the catch block of each handler, entered with an error of the document store
OnStoreError(q) ==
    LET e == [q EXCEPT !.storeErr = TRUE]
    IN  IF q.op = "getGraph" THEN [e EXCEPT !.pc = "done", !.out = "undefined"]
        ELSE IF q.op = "getRecommendations" THEN Returned(e, NoRes)
        ELSE Threw(e)

\* mutant of AfterLoad: a missing node or edge is logged and the handler
\* returns without an error
AfterLoadSilent(q, g) ==
    LET l == [q EXCEPT !.graph = g, !.time = now]
    IN  CASE q.op = "getGraph" -> Returned(l, GraphView(g, q.a.conv))
          [] q.op = "getRecommendations" ->
                IF q.badRecs THEN Returned(l, NoRes)
                ELSE Returned(l, [NoRes EXCEPT !.ids = FilterSeq(q.recs, NodeIds(g))])
          [] q.op = "updateNode" ->
                IF IndexOfNode(g, q.a.nodeId) = 0 THEN Returned(l, NoRes)
                ELSE [l EXCEPT !.pc = "save"]
          [] q.op \in {"updateEdge", "deleteEdge"} ->
                IF IndexOfEdge(g, q.a.source, q.a.target) = 0 THEN Returned(l, NoRes)
                ELSE [l EXCEPT !.pc = "save"]
          [] q.op = "importNodes" ->
                LET ms == MessageFind(q.user, q.a.nodeIds)
                IN  [l EXCEPT !.pc = "saveAll",
                              !.pend = {"graph"} \cup
                                 {ms[i].messageId : i \in
                                    {j \in 1..Len(ms) :
                                        Flagged(ms[j], q.a.nodeIds, q.cur) # {}}}]
          [] OTHER -> [l EXCEPT !.pc = "save"]


\* mutant of AfterLoad: createEdge rejects a pair with an endpoint that is no
\* node of the document
AfterLoadChecked(q, g) ==
    LET l == [q EXCEPT !.graph = g, !.time = now]
    IN  CASE q.op = "getGraph" -> Returned(l, GraphView(g, q.a.conv))
          [] q.op = "getRecommendations" ->
                IF q.badRecs THEN Returned(l, NoRes)
                ELSE Returned(l, [NoRes EXCEPT !.ids = FilterSeq(q.recs, NodeIds(g))])
          [] q.op = "updateNode" ->
                IF IndexOfNode(g, q.a.nodeId) = 0 /\ q.a.given # {} THEN Threw(l)
                ELSE [l EXCEPT !.pc = "save"]
          [] q.op \in {"updateEdge", "deleteEdge"} ->
                IF IndexOfEdge(g, q.a.source, q.a.target) = 0 THEN Threw(l)
                ELSE [l EXCEPT !.pc = "save"]
          [] q.op = "createEdge" ->
                IF IndexOfNode(g, q.a.source) = 0 \/ IndexOfNode(g, q.a.target) = 0
                THEN Threw(l)
                ELSE [l EXCEPT !.pc = "save"]
          [] q.op = "importNodes" ->
                LET ms == MessageFind(q.user, q.a.nodeIds)
                IN  [l EXCEPT !.pc = "saveAll",
                              !.pend = {"graph"} \cup
                                 {ms[i].messageId : i \in
                                    {j \in 1..Len(ms) :
                                        Flagged(ms[j], q.a.nodeIds, q.cur) # {}}}]
          [] OTHER -> [l EXCEPT !.pc = "save"]

\* The synchronous code that follows "await getOrCreateGraphDoc(userId)", up
\* to the next await.  The edge handlers read the clock here (new Date()).
\* getRecommendations filters the ids of the strategy; a value that is not an
\* array has no filter method, and the TypeError ends in the catch block,
\* which returns [].
\* A missing edge makes updateEdge and deleteEdge throw at once (edge is
\* undefined); a missing node makes updateNode throw at the first field it
\* assigns, and with no field supplied it goes on to graph.save().
AfterLoad(q, g) ==
    LET l == [q EXCEPT !.graph = g, !.time = now]
    IN  CASE q.op = "getGraph" -> Returned(l, GraphView(g, q.a.conv))
          [] q.op = "getRecommendations" ->
                IF q.badRecs THEN Returned(l, NoRes)
                ELSE Returned(l, [NoRes EXCEPT !.ids = FilterSeq(q.recs, NodeIds(g))])
          [] q.op = "updateNode" ->
                IF IndexOfNode(g, q.a.nodeId) = 0 /\ q.a.given # {} THEN Threw(l)
                ELSE [l EXCEPT !.pc = "save"]
          [] q.op \in {"updateEdge", "deleteEdge"} ->
                IF IndexOfEdge(g, q.a.source, q.a.target) = 0 THEN Threw(l)
                ELSE [l EXCEPT !.pc = "save"]
          [] q.op = "importNodes" ->
                LET ms == MessageFind(q.user, q.a.nodeIds)
                IN  [l EXCEPT !.pc = "saveAll",
                              !.pend = {"graph"} \cup
                                 {ms[i].messageId : i \in
                                    {j \in 1..Len(ms) :
                                        Flagged(ms[j], q.a.nodeIds, q.cur) # {}}}]
          [] OTHER -> [l EXCEPT !.pc = "save"]

\* ----------------------------------------------------------------- inputs
Patch(fields, a) == [a EXCEPT !.given = fields]

GetGraphIn == {[NoArgs EXCEPT !.conv = c] : c \in {Null, "", "k1"}}

CreateNodeIn ==
    { NoArgs,
      [NoArgs EXCEPT !.label = LStr("")],
      [NoArgs EXCEPT !.label = LStr("a"), !.content = "c1", !.x = 1, !.y = 2,
                     !.smid = "m1", !.scid = "k1"],
      [NoArgs EXCEPT !.label = LArr(<<"a", "b">>), !.content = "c2"],
      [NoArgs EXCEPT !.label = LStr(""), !.content = "c9", !.smid = "", !.scid = ""],
      [NoArgs EXCEPT !.smid = "m1", !.scid = ""] }

UpdateNodeIn ==
    { [p EXCEPT !.nodeId = n] :
        n \in {2, 0},
        p \in { Patch({}, NoArgs),
                Patch({"content"}, [NoArgs EXCEPT !.content = "c3"]),
                Patch({"content", "x"}, [NoArgs EXCEPT !.content = "c4", !.x = 5]),
                Patch({"label", "labels"},
                      [NoArgs EXCEPT !.label = LStr("a"), !.labels = LArr(<<"b">>)]),
                Patch({"label", "y", "smid", "scid"},
                      [NoArgs EXCEPT !.label = LStr("b"), !.y = 3,
                                     !.smid = "m2", !.scid = "k2"]) } }

ImportNodesIn ==
    {[NoArgs EXCEPT !.nodeIds = s] : s \in {<<>>, <<101>>, <<101, 102>>, <<103>>}}

DeleteNodesIn ==
    {[NoArgs EXCEPT !.nodeIds = s] : s \in {<<>>, <<2>>, <<2, 3>>, <<0>>}}

EdgeLabelIn ==
    {LUndef, LStr("a"), LArr(<<"b">>), LArr(<<"a", "b">>), LArr(<<"a", "a">>)}

EdgePairIn == {<<2, 3>>, <<3, 2>>, <<2, 0>>}

EdgeIn ==
    {[NoArgs EXCEPT !.source = p[1], !.target = p[2], !.label = l] :
        p \in EdgePairIn, l \in EdgeLabelIn}

DeleteEdgeIn ==
    {[NoArgs EXCEPT !.source = p[1], !.target = p[2]] : p \in EdgePairIn}

\* the names registered in recommendationStrategies
Methods == {"least_similar", "synonyms", "node_tag", "edge_analogy", "old_ones"}

\* Names every object inherits from Object.prototype whose call as
\* strategy(userId, params) does not throw and returns a value that is not an
\* array: toString a string, constructor a wrapper object of userId,
\* isPrototypeOf the value false.
InheritedNames == {"toString", "constructor", "isPrototypeOf"}

\* The other names inherited from Object.prototype: called as
\* strategy(userId, params) they throw a TypeError (__proto__ is no function)
InheritedThrowing ==
    {"valueOf", "hasOwnProperty", "propertyIsEnumerable", "toLocaleString",
     "__defineGetter__", "__defineSetter__", "__lookupGetter__", "__lookupSetter__",
     "__proto__"}

\* const strategy = recommendationStrategies[method]; if (!strategy) ...: a
\* property lookup, so an inherited name is found as a registered one is
StrategyFound(method) == method \in Methods \cup InheritedNames \cup InheritedThrowing

RecommendIn ==
    {[NoArgs EXCEPT !.method = m] :
        m \in {"least_similar", "no_such_method", "toString", "isPrototypeOf", "valueOf"}}

\* what a strategy may return: stale, foreign and repeated ids included
StrategyOut == {<<>>, <<2, 0>>, <<3, 3, 2>>, <<7, 4>>}

\* what the clustering service may return (normalized coordinates)
UmapOut ==
    { <<>>,
      <<[id |-> 3, x |-> 2, y |-> -1]>>,
      <<[id |-> 0, x |-> 1, y |-> 1], [id |-> 2, x |-> 1, y |-> 0]>> }

Calls ==
    [op : {"getGraph"}, a : GetGraphIn] \cup
    [op : {"createNode"}, a : CreateNodeIn] \cup
    [op : {"updateNode"}, a : UpdateNodeIn] \cup
    [op : {"importNodes"}, a : ImportNodesIn] \cup
    [op : {"deleteNodes"}, a : DeleteNodesIn] \cup
    [op : {"createEdge", "updateEdge"}, a : EdgeIn] \cup
    [op : {"deleteEdge"}, a : DeleteEdgeIn] \cup
    [op : {"clearGraph", "calculateCluster"}, a : {NoArgs}] \cup
    [op : {"getRecommendations"}, a : RecommendIn]

\* the first await of each handler
FirstPc(op) ==
    CASE op = "importNodes" -> "msgFind"
      [] op = "deleteNodes" -> "pullNodes"
      [] op = "clearGraph" -> "deleteOne"
      [] op = "getRecommendations" -> "strategy"
      [] op = "calculateCluster" -> "umap"
      [] OTHER -> "findOne"


\* ------------------------------------------------------------------- Init
\* A graph that createNode (three times) and createEdge (twice) have built
\* for u1, with every embedding call delivered.
SeedDoc ==
    [docId |-> 1, userId |-> "u1",
     nodes |-> << [NewNodeDoc(2, "c1", <<"a">>, 1, 2, "m1", "k1") EXCEPT !.updatedAt = 1],
                  [NewNodeDoc(3, "c2", <<"a", "b">>, 0, 0, Null, "k1") EXCEPT !.updatedAt = 1],
                  [NewNodeDoc(4, "", <<>>, 0, 0, Null, Null) EXCEPT !.updatedAt = 1] >>,
     edges |-> << NewEdgeDoc(5, 2, 3, <<"a">>), NewEdgeDoc(6, 3, 4, <<"b">>) >>]

SeedIndex ==
    {NodeEntry(SeedDoc.nodes[i]) : i \in 1..3} \cup
    {IndexEntry(5, "edge", "", LStr("a")), IndexEntry(6, "edge", "", LArr(<<"b">>))}

Init ==
    /\ curated = {}
    /\ req = [r \in Reqs |-> IdleReq]
    /\ now = 1
    /\ \/ /\ docs = {}
          /\ index = [u \in Users |-> {}]
          /\ nextId = 1
       \/ /\ docs = {SeedDoc}
          /\ index = [u \in Users |-> IF u = "u1" THEN SeedIndex ELSE {}]
          /\ nextId = 7

\* ---------------------------------------------------------------- actions
\* A request arrives: request r of the behaviour, for any user and handler.
\* pre and quiet record what the request found: the user's document, and
\* whether no save of an earlier request was still in flight.
Start(r, u, c) ==
    /\ req' = [req EXCEPT ![r] =
                  [IdleReq EXCEPT !.pc = FirstPc(c.op), !.op = c.op, !.user = u,
                                  !.a = c.a, !.pre = FindOne(u),
                                  !.quiet = \A p \in Reqs : req[p].pend = {}]]
    /\ now' = now + 1
    /\ UNCHANGED <<docs, curated, index, nextId>>

\* requests run concurrently
Begin(r) ==
    /\ req[r].pc = "idle"
    /\ \A p \in 1..(r - 1) : req[p].pc # "idle"
    /\ \E u \in Users, c \in Calls : Start(r, u, c)

\* requests run one after the other: the caller makes the next call when the
\* earlier ones have returned or thrown (a save that importNodes left in
\* flight when it threw may still land during the next call)
BeginSeq(r) ==
    /\ req[r].pc = "idle"
    /\ \A p \in 1..(r - 1) : req[p].pc = "done"
    /\ \E u \in Users, c \in Calls : Start(r, u, c)

\* mutant of InsertAllowed: the collection has no unique key on userId
InsertAlways(d) == TRUE

\* The KGraph collection accepts a new document for a user only when it
\* holds none for that user (the collection is keyed by userId).
InsertAllowed(d) == ~HasDoc(d.userId)

\* mutant of getOrCreateGraphDoc_findOne: a new empty document is built even
\* when findOne returned one
getOrCreateGraphDoc_alwaysNew(r) ==
    LET q == req[r]
    IN  /\ q.pc = "findOne"
        /\ \/ /\ HasDoc(q.user)
              /\ req' = [req EXCEPT ![r] = AfterLoad(q, NewGraphDoc(nextId, q.user))]
              /\ nextId' = nextId + 1
           \/ /\ ~HasDoc(q.user)
              /\ req' = [req EXCEPT ![r] =
                            [q EXCEPT !.pc = "insert", !.graph = NewGraphDoc(nextId, q.user)]]
              /\ nextId' = nextId + 1
           \/ /\ req' = [req EXCEPT ![r] = OnStoreError(q)]
              /\ nextId' = nextId
        /\ UNCHANGED <<docs, curated, index, now>>


\* mutant of getOrCreateGraphDoc_findOne: the load repairs the stored document,
\* pulling the edges that have an endpoint which is no node
getOrCreateGraphDoc_findOneRepair(r) ==
    LET q == req[r]
        d == FindOne(q.user)
        fixed == [d EXCEPT !.edges =
                     SelectSeq(@, LAMBDA e : e.source \in NodeIds(d) /\ e.target \in NodeIds(d))]
    IN  /\ q.pc = "findOne"
        /\ \/ /\ HasDoc(q.user)
              /\ req' = [req EXCEPT ![r] = AfterLoad(q, fixed)]
              /\ docs' = (docs \ {d}) \cup {fixed}
              /\ nextId' = nextId
           \/ /\ ~HasDoc(q.user)
              /\ req' = [req EXCEPT ![r] =
                            [q EXCEPT !.pc = "insert", !.graph = NewGraphDoc(nextId, q.user)]]
              /\ docs' = docs
              /\ nextId' = nextId + 1
           \/ /\ req' = [req EXCEPT ![r] = OnStoreError(q)]
              /\ docs' = docs
              /\ nextId' = nextId
        /\ UNCHANGED <<curated, index, now>>

\* getOrCreateGraphDoc: await KGraph.findOne({ userId })
getOrCreateGraphDoc_findOne(r) ==
    LET q == req[r]
    IN  /\ q.pc = "findOne"
        /\ \/ /\ HasDoc(q.user)
              /\ req' = [req EXCEPT ![r] = AfterLoad(q, FindOne(q.user))]
              /\ nextId' = nextId
           \/ /\ ~HasDoc(q.user)
              /\ req' = [req EXCEPT ![r] =
                            [q EXCEPT !.pc = "insert", !.graph = NewGraphDoc(nextId, q.user)]]
              /\ nextId' = nextId + 1
           \/ /\ req' = [req EXCEPT ![r] = OnStoreError(q)]
              /\ nextId' = nextId
        /\ UNCHANGED <<docs, curated, index, now>>

\* getOrCreateGraphDoc: graph = new KGraph({ userId, nodes: [], edges: [] }); await graph.save()
getOrCreateGraphDoc_save(r) ==
    LET q == req[r]
    IN  /\ q.pc = "insert"
        /\ \/ /\ InsertAllowed(q.graph)
              /\ docs' = docs \cup {q.graph}
              /\ req' = [req EXCEPT ![r] = AfterLoad(q, q.graph)]
           \/ /\ docs' = docs
              /\ req' = [req EXCEPT ![r] = OnStoreError(q)]
        /\ UNCHANGED <<curated, index, nextId, now>>

\* mutant of Save: an optimistic check rejects the save of a document that
\* changed since it was loaded
SaveVersioned(r, dl, onOk, onErr) ==
    LET q == req[r]
        d == Persisted(q.graph)
    IN  \/ /\ IsEmptyDelta(dl)
           /\ docs' = docs
           /\ req' = [req EXCEPT ![r] = onOk]
        \/ /\ ~IsEmptyDelta(dl)
           /\ d = q.graph
           /\ docs' = (docs \ {d}) \cup {ApplyDelta(d, dl)}
           /\ req' = [req EXCEPT ![r] = onOk]
        \/ /\ ~IsEmptyDelta(dl)
           /\ docs' = docs
           /\ req' = [req EXCEPT ![r] = IF d = q.graph THEN [onErr EXCEPT !.storeErr = TRUE]
                                        ELSE onErr]

\* mutant of Save: a failed save is logged and the handler goes on
SaveSwallow(r, dl, onOk, onErr) ==
    LET q == req[r]
        d == Persisted(q.graph)
    IN  \/ /\ IsEmptyDelta(dl)
           /\ docs' = docs
           /\ req' = [req EXCEPT ![r] = onOk]
        \/ /\ ~IsEmptyDelta(dl)
           /\ d # NoDoc
           /\ docs' = (docs \ {d}) \cup {ApplyDelta(d, dl)}
           /\ req' = [req EXCEPT ![r] = onOk]
        \/ /\ docs' = docs
           /\ req' = [req EXCEPT ![r] = [onOk EXCEPT !.storeErr = TRUE]]

\* await graph.save() of a document loaded as q.graph and modified to m: the
\* update reaches the persisted document, or the store fails (also when the
\* document is gone).  A save with nothing modified writes nothing; it is
\* still awaited and can still fail.
Save(r, dl, onOk, onErr) ==
    LET q == req[r]
        d == Persisted(q.graph)
    IN  \/ /\ IsEmptyDelta(dl)
           /\ docs' = docs
           /\ req' = [req EXCEPT ![r] = onOk]
        \/ /\ ~IsEmptyDelta(dl)
           /\ d # NoDoc
           /\ docs' = (docs \ {d}) \cup {ApplyDelta(d, dl)}
           /\ req' = [req EXCEPT ![r] = onOk]
        \/ /\ docs' = docs
           /\ req' = [req EXCEPT ![r] = [onErr EXCEPT !.storeErr = TRUE]]

\* mutant of Post: the error of a failed call is thrown to the caller
PostRethrow(r, call, onDone) ==
    LET q == req[r]
    IN  \E ok \in BOOLEAN :
           /\ index' = IF ok THEN [index EXCEPT ![q.user] = PeerApply(@, call)] ELSE index
           /\ req' = [req EXCEPT ![r] =
                         [(IF ok THEN onDone ELSE Threw(q))
                            EXCEPT !.calls = Append(@, call), !.peerErr = ~ok]]

\* mutant of Post: a failed call is sent a second time
PostRetry(r, call, onDone) ==
    LET q == req[r]
    IN  \E ok \in BOOLEAN :
           /\ index' = [index EXCEPT ![q.user] = PeerApply(@, call)]
           /\ req' = [req EXCEPT ![r] =
                         [onDone EXCEPT !.calls = IF ok THEN Append(@, call)
                                                  ELSE Append(Append(@, call), call),
                                        !.peerErr = ~ok]]

\* await axios.post(url, payload, { timeout: 15000 }) inside try / catch: the
\* call is delivered, or it fails or times out and the error is logged.
Post(r, call, onDone) ==
    LET q == req[r]
    IN  \E ok \in BOOLEAN :
           /\ index' = IF ok THEN [index EXCEPT ![q.user] = PeerApply(@, call)] ELSE index
           /\ req' = [req EXCEPT ![r] =
                         [onDone EXCEPT !.calls = Append(@, call), !.peerErr = ~ok]]

\* createNode: graph.nodes.push(newNode); await graph.save()
createNode_save(r) ==
    LET q == req[r]
        m == CreateNodeMem(q.graph, q.a, nextId)
    IN  /\ q.pc = "save" /\ q.op = "createNode"
        /\ Save(r, Delta(q.graph, m, 0, "none"), [q EXCEPT !.pc = "peer", !.mem = m], Threw(q))
        /\ nextId' = nextId + 1
        /\ UNCHANGED <<curated, index, now>>

\* createNode: the embed/node call and the return
createNode_embed(r) ==
    LET q == req[r]
        createdNode == q.mem.nodes[Len(q.mem.nodes)]
    IN  /\ q.pc = "peer" /\ q.op = "createNode"
        /\ Post(r, PeerCall("embed_node", <<createdNode.id>>, <<NodeEntry(createdNode)>>),
                Returned(q, [NoRes EXCEPT !.nodes = <<createdNode>>]))
        /\ UNCHANGED <<docs, curated, nextId, now>>

\* mutant of updateNode_save: the embed call is made only when the supplied
\* content differs from the content the node had
updateNode_saveIfDiffers(r) ==
    LET q == req[r]
        m == UpdateNodeMem(q.graph, q.a)
        ni == IndexOfNode(m, q.a.nodeId)
        updatedNode == m.nodes[ni]
        l == [q EXCEPT !.mem = m]
    IN  /\ q.pc = "save" /\ q.op = "updateNode"
        /\ Save(r, Delta(q.graph, m, 0, "none"),
                IF ni = 0 THEN Threw(l)
                ELSE IF updatedNode.content # q.graph.nodes[ni].content
                     THEN [l EXCEPT !.pc = "peer"]
                     ELSE Returned(l, [NoRes EXCEPT !.nodes = <<updatedNode>>]),
                Threw(q))
        /\ UNCHANGED <<curated, index, nextId, now>>

\* updateNode: the supplied fields are set; await graph.save(); node.toObject()
\* then throws when the node is missing
updateNode_save(r) ==
    LET q == req[r]
        m == UpdateNodeMem(q.graph, q.a)
        ni == IndexOfNode(m, q.a.nodeId)
        updatedNode == m.nodes[ni]
        l == [q EXCEPT !.mem = m]
    IN  /\ q.pc = "save" /\ q.op = "updateNode"
        /\ Save(r, Delta(q.graph, m, 0, "none"),
                IF ni = 0 THEN Threw(l)
                ELSE IF "content" \in q.a.given THEN [l EXCEPT !.pc = "peer"]
                ELSE Returned(l, [NoRes EXCEPT !.nodes = <<updatedNode>>]),
                Threw(q))
        /\ UNCHANGED <<curated, index, nextId, now>>

\* updateNode: if (contentChanged) the embed/node call; the return
updateNode_embed(r) ==
    LET q == req[r]
        updatedNode == q.mem.nodes[IndexOfNode(q.mem, q.a.nodeId)]
    IN  /\ q.pc = "peer" /\ q.op = "updateNode"
        /\ Post(r, PeerCall("embed_node", <<updatedNode.id>>, <<NodeEntry(updatedNode)>>),
                Returned(q, [NoRes EXCEPT !.nodes = <<updatedNode>>]))
        /\ UNCHANGED <<docs, curated, nextId, now>>


\* importNodes: await Message.find(...)
importNodes_find(r) ==
    LET q == req[r]
    IN  /\ q.pc = "msgFind" /\ q.op = "importNodes"
        /\ \/ req' = [req EXCEPT ![r] = [q EXCEPT !.pc = "findOne", !.cur = curated]]
           \/ req' = [req EXCEPT ![r] = OnStoreError(q)]
        /\ UNCHANGED <<docs, curated, index, nextId, now>>

\* importNodes: await Promise.all(savePromises) rejects as soon as one save
\* has failed, so the handler throws while the other saves are still in
\* flight (they stay in pend and settle later); it resumes when every save
\* has succeeded.
Joined(q) ==
    IF q.fail THEN Threw(q)
    ELSE IF q.pend # {} THEN q
    ELSE [q EXCEPT !.pc = "peer"]

\* the saves of savePromises are in flight: the handler waits for them, or it
\* has thrown on the first failure
SavesInFlight(q) ==
    /\ q.op = "importNodes"
    /\ q.pc = "saveAll" \/ (q.pc = "done" /\ q.fail)

\* importNodes: one of the message.save() of savePromises
importNodes_saveMessage(r) ==
    LET q == req[r]
        ms == MessageFind(q.user, q.a.nodeIds)
    IN  /\ SavesInFlight(q)
        /\ \E i \in 1..Len(ms) :
              /\ ms[i].messageId \in q.pend
              /\ \/ /\ curated' = curated \cup Flagged(ms[i], q.a.nodeIds, q.cur)
                    /\ req' = [req EXCEPT ![r] =
                                  Joined([q EXCEPT !.pend = @ \ {ms[i].messageId}])]
                 \/ /\ curated' = curated
                    /\ req' = [req EXCEPT ![r] =
                                  Joined([q EXCEPT !.pend = @ \ {ms[i].messageId},
                                                   !.fail = TRUE, !.storeErr = TRUE])]
        /\ UNCHANGED <<docs, index, nextId, now>>

\* importNodes: graph.nodes.push(...newNodes); the graph.save() of savePromises
importNodes_saveGraph(r) ==
    LET q == req[r]
        newNodes == NewNodes(MessageFind(q.user, q.a.nodeIds), q.a.nodeIds)
        m == ImportNodesMem(q.graph, newNodes, nextId)
        l == [q EXCEPT !.pend = @ \ {"graph"}, !.mem = m]
    IN  /\ SavesInFlight(q)
        /\ "graph" \in q.pend
        /\ Save(r, Delta(q.graph, m, 0, "none"), Joined(l), Joined([l EXCEPT !.fail = TRUE]))
        /\ nextId' = nextId + Len(newNodes)
        /\ UNCHANGED <<curated, index, now>>

\* importNodes: the embed/node call for the added nodes and the return
importNodes_embed(r) ==
    LET q == req[r]
        newNodes == NewNodes(MessageFind(q.user, q.a.nodeIds), q.a.nodeIds)
        addedNodes == AddedNodes(q.mem, Len(newNodes))
    IN  /\ q.pc = "peer" /\ q.op = "importNodes"
        /\ Post(r, PeerCall("embed_node",
                            [i \in 1..Len(addedNodes) |-> addedNodes[i].id],
                            [i \in 1..Len(addedNodes) |-> NodeEntry(addedNodes[i])]),
                Returned(q, [NoRes EXCEPT !.nodes = addedNodes]))
        /\ UNCHANGED <<docs, curated, nextId, now>>

\* deleteNodes: await KGraph.findOneAndUpdate({ userId }, { $pull: { nodes: ... } })
PullNodes(d, ids) ==
    [d EXCEPT !.nodes = SelectSeq(@, LAMBDA n : n.id \notin ids)]

\* mutant of PullIncidentEdges: only the edges leaving a deleted node are pulled
PullEdgesBySource(d, ids) ==
    [d EXCEPT !.edges = SelectSeq(@, LAMBDA e : e.source \notin ids)]

\* deleteNodes: await KGraph.updateOne({ userId }, { $pull: { edges: { $or: ... } } })
PullIncidentEdges(d, ids) ==
    [d EXCEPT !.edges = SelectSeq(@, LAMBDA e : e.source \notin ids /\ e.target \notin ids)]

\* an update operator applied to the document findOne would return, if any
UpdateOne(u, new) ==
    IF HasDoc(u) THEN (docs \ {FindOne(u)}) \cup {new} ELSE docs

deleteNodes_pullNodes(r) ==
    LET q == req[r]
    IN  /\ q.pc = "pullNodes" /\ q.op = "deleteNodes"
        /\ \/ /\ docs' = UpdateOne(q.user, PullNodes(FindOne(q.user), SeqToSet(q.a.nodeIds)))
              /\ req' = [req EXCEPT ![r] = [q EXCEPT !.pc = "pullEdges"]]
           \/ /\ docs' = docs
              /\ req' = [req EXCEPT ![r] = OnStoreError(q)]
        /\ UNCHANGED <<curated, index, nextId, now>>

deleteNodes_pullEdges(r) ==
    LET q == req[r]
    IN  /\ q.pc = "pullEdges" /\ q.op = "deleteNodes"
        /\ \/ /\ docs' = UpdateOne(q.user,
                                   PullIncidentEdges(FindOne(q.user), SeqToSet(q.a.nodeIds)))
              /\ req' = [req EXCEPT ![r] = [q EXCEPT !.pc = "peer"]]
           \/ /\ docs' = docs
              /\ req' = [req EXCEPT ![r] = OnStoreError(q)]
        /\ UNCHANGED <<curated, index, nextId, now>>

\* mutant of deleteNodes_embedDelete: the number of nodes found is returned
deleteNodes_embedDeleteFound(r) ==
    LET q == req[r]
    IN  /\ q.pc = "peer" /\ q.op = "deleteNodes"
        /\ Post(r, PeerCall("delete", q.a.nodeIds, <<>>),
                Returned(q, [NoRes EXCEPT !.count =
                                Cardinality(SeqToSet(q.a.nodeIds) \cap NodeIds(q.pre))]))
        /\ UNCHANGED <<docs, curated, nextId, now>>

\* deleteNodes: the embed/delete call and the return
deleteNodes_embedDelete(r) ==
    LET q == req[r]
    IN  /\ q.pc = "peer" /\ q.op = "deleteNodes"
        /\ Post(r, PeerCall("delete", q.a.nodeIds, <<>>),
                Returned(q, [NoRes EXCEPT !.count = Len(q.a.nodeIds)]))
        /\ UNCHANGED <<docs, curated, nextId, now>>

\* createEdge: merge into the edge of the pair or push a new edge; await graph.save()
createEdge_save(r) ==
    LET q == req[r]
        ei == IndexOfEdge(q.graph, q.a.source, q.a.target)
        m == CreateEdgeMem(q.graph, q.a, nextId, q.time)
    IN  /\ q.pc = "save" /\ q.op = "createEdge"
        /\ Save(r, Delta(q.graph, m, ei, IF ei # 0 THEN "push" ELSE "none"),
                [q EXCEPT !.pc = "peer", !.mem = m], Threw(q))
        /\ nextId' = IF ei = 0 THEN nextId + 1 ELSE nextId
        /\ UNCHANGED <<curated, index, now>>

\* createEdge, updateEdge: nodesForResponse
EndpointNodes(m, source, target) ==
    (IF IndexOfNode(m, source) # 0 THEN <<m.nodes[IndexOfNode(m, source)]>> ELSE <<>>) \o
    (IF IndexOfNode(m, target) # 0 THEN <<m.nodes[IndexOfNode(m, target)]>> ELSE <<>>)

\* the edge a handler holds after its in-memory update
EdgeOf(m, source, target) == m.edges[IndexOfEdge(m, source, target)]

\* createEdge: the embed/edge call and the return
createEdge_embed(r) ==
    LET q == req[r]
        edge == EdgeOf(q.mem, q.a.source, q.a.target)
    IN  /\ q.pc = "peer" /\ q.op = "createEdge"
        /\ Post(r, PeerCall("embed_edge", <<edge.id>>,
                            <<IndexEntry(edge.id, "edge", "", CreateEdgePayloadLabel(q.a.label))>>),
                Returned(q, [NoRes EXCEPT !.edges = <<edge>>,
                                          !.nodes = EndpointNodes(q.mem, q.a.source, q.a.target)]))
        /\ UNCHANGED <<docs, curated, nextId, now>>

\* updateEdge: the label array is replaced; await graph.save()
updateEdge_save(r) ==
    LET q == req[r]
        ei == IndexOfEdge(q.graph, q.a.source, q.a.target)
        m == UpdateEdgeMem(q.graph, q.a, q.time)
    IN  /\ q.pc = "save" /\ q.op = "updateEdge"
        /\ Save(r, Delta(q.graph, m, ei, "set"), [q EXCEPT !.pc = "peer", !.mem = m], Threw(q))
        /\ UNCHANGED <<curated, index, nextId, now>>

\* updateEdge: the embed/edge call and the return
updateEdge_embed(r) ==
    LET q == req[r]
        edge == EdgeOf(q.mem, q.a.source, q.a.target)
    IN  /\ q.pc = "peer" /\ q.op = "updateEdge"
        /\ Post(r, PeerCall("embed_edge", <<edge.id>>,
                            <<IndexEntry(edge.id, "edge", "", UpdateEdgePayloadLabel(q.a.label))>>),
                Returned(q, [NoRes EXCEPT !.edges = <<edge>>,
                                          !.nodes = EndpointNodes(q.mem, q.a.source, q.a.target)]))
        /\ UNCHANGED <<docs, curated, nextId, now>>

\* deleteEdge: graph.edges.pull({ _id: edge._id }); await graph.save()
deleteEdge_save(r) ==
    LET q == req[r]
        m == DeleteEdgeMem(q.graph, q.a, q.time)
    IN  /\ q.pc = "save" /\ q.op = "deleteEdge"
        /\ Save(r, Delta(q.graph, m, 0, "none"), [q EXCEPT !.pc = "peer", !.mem = m], Threw(q))
        /\ UNCHANGED <<curated, index, nextId, now>>

\* deleteEdge: the embed/delete call and the return
deleteEdge_embedDelete(r) ==
    LET q == req[r]
        edgeId == EdgeOf(q.graph, q.a.source, q.a.target).id
    IN  /\ q.pc = "peer" /\ q.op = "deleteEdge"
        /\ Post(r, PeerCall("delete", <<edgeId>>, <<>>),
                Returned(q, [NoRes EXCEPT !.count = 1]))
        /\ UNCHANGED <<docs, curated, nextId, now>>

\* mutant of clearGraph_deleteOne: a failed deletion is logged and the reset
\* is requested all the same
clearGraph_deleteOneSwallow(r) ==
    LET q == req[r]
    IN  /\ q.pc = "deleteOne" /\ q.op = "clearGraph"
        /\ \/ /\ docs' = docs \ {FindOne(q.user)}
              /\ req' = [req EXCEPT ![r] = [q EXCEPT !.pc = "peer"]]
           \/ /\ docs' = docs
              /\ req' = [req EXCEPT ![r] = [q EXCEPT !.pc = "peer", !.storeErr = TRUE]]
        /\ UNCHANGED <<curated, index, nextId, now>>

\* clearGraph: await KGraph.deleteOne({ userId })
clearGraph_deleteOne(r) ==
    LET q == req[r]
    IN  /\ q.pc = "deleteOne" /\ q.op = "clearGraph"
        /\ \/ /\ docs' = docs \ {FindOne(q.user)}
              /\ req' = [req EXCEPT ![r] = [q EXCEPT !.pc = "peer"]]
           \/ /\ docs' = docs
              /\ req' = [req EXCEPT ![r] = OnStoreError(q)]
        /\ UNCHANGED <<curated, index, nextId, now>>

\* clearGraph: the embed/reset call and the return
clearGraph_reset(r) ==
    LET q == req[r]
    IN  /\ q.pc = "peer" /\ q.op = "clearGraph"
        /\ Post(r, PeerCall("reset", <<>>, <<>>), Returned(q, NoRes))
        /\ UNCHANGED <<docs, curated, nextId, now>>

\* getRecommendations: the registry lookup and await strategy(userId, params);
\* every error ends in the catch block, which returns [].  For an inherited
\* name the value found either throws when called, or returns a value that is
\* not an array, and then the handler goes on to getOrCreateGraphDoc.
getRecommendations_strategy(r) ==
    LET q == req[r]
    IN  /\ q.pc = "strategy" /\ q.op = "getRecommendations"
        /\ \/ /\ ~StrategyFound(q.a.method)
              /\ req' = [req EXCEPT ![r] = Returned(q, NoRes)]
           \/ /\ q.a.method \in Methods
              /\ \E out \in StrategyOut :
                    req' = [req EXCEPT ![r] = [q EXCEPT !.pc = "findOne", !.recs = out]]
           \/ /\ q.a.method \in Methods
              /\ req' = [req EXCEPT ![r] = Returned([q EXCEPT !.peerErr = TRUE], NoRes)]
           \/ /\ q.a.method \in InheritedNames
              /\ req' = [req EXCEPT ![r] = [q EXCEPT !.pc = "findOne", !.badRecs = TRUE]]
           \/ /\ q.a.method \in InheritedThrowing
              /\ req' = [req EXCEPT ![r] = Returned(q, NoRes)]
        /\ UNCHANGED <<docs, curated, index, nextId, now>>

\* calculateCluster: await axios.post(PYTHON_UMAP_URL, { user_id }, { headers }):
\* no timeout is passed, so the call answers, fails, or, with a peer that never
\* responds, stays pending and the handler waits at this await for ever.
calculateCluster_umap(r) ==
    LET q == req[r]
        call == PeerCall("calculate_umap", <<>>, <<>>)
    IN  /\ q.pc = "umap" /\ q.op = "calculateCluster"
        /\ \/ \E data \in UmapOut :
                 req' = [req EXCEPT ![r] =
                            [q EXCEPT !.pc = "findOne", !.umap = data,
                                      !.calls = Append(@, call)]]
           \/ req' = [req EXCEPT ![r] =
                         Threw([q EXCEPT !.peerErr = TRUE, !.calls = Append(@, call)])]
           \/ req' = [req EXCEPT ![r] =
                         [q EXCEPT !.pc = "waiting", !.calls = Append(@, call)]]
        /\ UNCHANGED <<docs, curated, index, nextId, now>>

\* mutant of calculateCluster_save: the stored, scaled coordinates are returned
calculateCluster_saveScaled(r) ==
    LET q == req[r]
        m == CalculateClusterMem(q.graph, q.umap)
        scaled == [i \in 1..Len(q.umap) |->
                      [q.umap[i] EXCEPT !.x = @ * ScaleFactor, !.y = @ * ScaleFactor]]
    IN  /\ q.pc = "save" /\ q.op = "calculateCluster"
        /\ Save(r, Delta(q.graph, m, 0, "none"),
                Returned([q EXCEPT !.mem = m], [NoRes EXCEPT !.umap = scaled]), Threw(q))
        /\ UNCHANGED <<curated, index, nextId, now>>

\* calculateCluster: the coordinates are overwritten; await graph.save(); the return
calculateCluster_save(r) ==
    LET q == req[r]
        m == CalculateClusterMem(q.graph, q.umap)
    IN  /\ q.pc = "save" /\ q.op = "calculateCluster"
        /\ Save(r, Delta(q.graph, m, 0, "none"),
                Returned([q EXCEPT !.mem = m], [NoRes EXCEPT !.umap = q.umap]), Threw(q))
        /\ UNCHANGED <<curated, index, nextId, now>>

Step(r) ==
    \/ getOrCreateGraphDoc_findOne(r)
    \/ getOrCreateGraphDoc_save(r)
    \/ createNode_save(r)
    \/ createNode_embed(r)
    \/ updateNode_save(r)
    \/ updateNode_embed(r)
    \/ importNodes_find(r)
    \/ importNodes_saveMessage(r)
    \/ importNodes_saveGraph(r)
    \/ importNodes_embed(r)
    \/ deleteNodes_pullNodes(r)
    \/ deleteNodes_pullEdges(r)
    \/ deleteNodes_embedDelete(r)
    \/ createEdge_save(r)
    \/ createEdge_embed(r)
    \/ updateEdge_save(r)
    \/ updateEdge_embed(r)
    \/ deleteEdge_save(r)
    \/ deleteEdge_embedDelete(r)
    \/ clearGraph_deleteOne(r)
    \/ clearGraph_reset(r)
    \/ getRecommendations_strategy(r)
    \/ calculateCluster_umap(r)
    \/ calculateCluster_save(r)

Next == \E r \in Reqs : Begin(r) \/ Step(r)

NextSeq == \E r \in Reqs : BeginSeq(r) \/ Step(r)

\* concurrent requests
Spec == Init /\ [][Next]_vars

\* one request at a time
SpecSeq == Init /\ [][NextSeq]_vars

\* one request at a time; every await of a running handler settles: the store
\* answers, and a peer call with a timeout answers, fails or times out
SpecSeqFair == SpecSeq /\ \A r \in Reqs : WF_vars(Step(r))


\* ================================================================= claims
Done(r) == req[r].pc = "done"

\* Request r has completed, no later request has started, and no save of an
\* earlier request was in flight when r arrived: under SpecSeq r was then the
\* only writer between its arrival and this state, req[r].pre is the state it
\* found and the store is in the state it left.
Latest(r) ==
    /\ Done(r) /\ req[r].quiet
    /\ \A p \in Reqs : p > r => req[p].pc = "idle"

Nodes(d) == SeqToSet(d.nodes)
Edges(d) == SeqToSet(d.edges)

RECURSIVE FirstSeen(_, _)
\* the elements of s that are not in seen, each once, in the order they first appear
FirstSeen(s, seen) ==
    IF s = <<>> THEN <<>>
    ELSE IF Head(s) \in seen THEN FirstSeen(Tail(s), seen)
         ELSE <<Head(s)>> \o FirstSeen(Tail(s), seen \cup {Head(s)})

\* the label argument of a request as the sequence of labels it names
LabelsOf(l) ==
    IF l.k = "arr" THEN l.a ELSE IF l.k = "str" /\ l.s # "" THEN <<l.s>> ELSE <<>>

\* C1: createEdge for a pair that already has an edge adds no edge, keeps the
\* id of the existing edge, and leaves as its label the old labels followed by
\* the new labels not already present, in first-seen order, without duplicates.
C1_CreateEdgeMergeNoDuplicates ==
    \A r \in Reqs :
        (/\ Latest(r) /\ req[r].op = "createEdge" /\ req[r].out = "ok"
         /\ IndexOfEdge(req[r].pre, req[r].a.source, req[r].a.target) # 0)
        => LET ei == IndexOfEdge(req[r].pre, req[r].a.source, req[r].a.target)
               old == req[r].pre.edges[ei]
               d == FindOne(req[r].user)
           IN  /\ Len(d.edges) = Len(req[r].pre.edges)
               /\ d.edges[ei].id = old.id
               /\ d.edges[ei].label =
                     old.label \o FirstSeen(LabelsOf(req[r].a.label), SeqToSet(old.label))
               /\ NoDup(d.edges[ei].label)

\* C2: in every reachable state, whatever the interleaving of the requests of
\* a user, a document holds at most one edge for an ordered (source, target) pair.
C2_OneEdgePerPair ==
    \A d \in docs : \A i, j \in 1..Len(d.edges) :
        (d.edges[i].source = d.edges[j].source /\ d.edges[i].target = d.edges[j].target)
        => i = j

\* C3: after deleteNodes the document holds no node of nodeIds and no edge
\* with an endpoint in nodeIds, and every other node and edge is still there,
\* unchanged.
C3_DeleteNodesCascade ==
    \A r \in Reqs :
        (Latest(r) /\ req[r].op = "deleteNodes" /\ req[r].out = "ok")
        => LET ids == SeqToSet(req[r].a.nodeIds)
               d == FindOne(req[r].user)
               pre == req[r].pre
           IN  /\ \A n \in Nodes(d) : n.id \notin ids
               /\ \A e \in Edges(d) : e.source \notin ids /\ e.target \notin ids
               /\ \A n \in Nodes(pre) : n.id \notin ids => n \in Nodes(d)
               /\ \A e \in Edges(pre) :
                     (e.source \notin ids /\ e.target \notin ids) => e \in Edges(d)
               /\ Len(d.nodes) <= Len(pre.nodes) /\ Len(d.edges) <= Len(pre.edges)

\* C3 witness: a deleteNodes that removed a node and an incident edge and
\* left another node and another edge in place
C3_Witness ==
    \E r \in Reqs :
        /\ Latest(r) /\ req[r].op = "deleteNodes" /\ req[r].out = "ok"
        /\ LET d == FindOne(req[r].user)
           IN  /\ Len(d.nodes) < Len(req[r].pre.nodes) /\ Len(d.nodes) > 0
               /\ Len(d.edges) < Len(req[r].pre.edges) /\ Len(d.edges) > 0


\* the content a request wrote on the node it addresses, and the node as loaded
LoadedNode(r) == req[r].graph.nodes[IndexOfNode(req[r].graph, req[r].a.nodeId)]

\* two updateNode requests of one user set different contents on one node, and
\* each loaded the node before the other had saved
Racing(r1, r2) ==
    /\ r1 # r2 /\ Done(r1) /\ Done(r2)
    /\ \A p \in Reqs \ {r1, r2} : req[p].pc = "idle"
    /\ req[r1].op = "updateNode" /\ req[r2].op = "updateNode"
    /\ req[r1].user = req[r2].user /\ req[r1].a.nodeId = req[r2].a.nodeId
    /\ "content" \in req[r1].a.given /\ "content" \in req[r2].a.given
    /\ req[r1].a.content # req[r2].a.content
    /\ ~req[r1].storeErr /\ ~req[r2].storeErr
    /\ IndexOfNode(req[r1].graph, req[r1].a.nodeId) # 0
    /\ IndexOfNode(req[r2].graph, req[r2].a.nodeId) # 0
    /\ LoadedNode(r1).content = LoadedNode(r2).content
    /\ LoadedNode(r1).content \notin {req[r1].a.content, req[r2].a.content}

StoredContent(r) ==
    LET d == FindOne(req[r].user)
    IN  d.nodes[IndexOfNode(d, req[r].a.nodeId)].content

\* C4: concurrent mutations of a document are not serialized: when two writers
\* have both loaded the document before either saved, and the store does not
\* fail, both report success and the persisted document holds the change of
\* only one of them.
C4_LostUpdate ==
    \A r1, r2 \in Reqs :
        Racing(r1, r2)
        => /\ req[r1].out = "ok" /\ req[r2].out = "ok"
           /\ \/ StoredContent(r1) = req[r1].a.content
              \/ StoredContent(r1) = req[r2].a.content

\* C4 witness: both writers reported success and the content of the first is gone
C4_Witness ==
    \E r1, r2 \in Reqs :
        /\ Racing(r1, r2)
        /\ req[r1].out = "ok" /\ req[r2].out = "ok"
        /\ StoredContent(r1) = req[r2].a.content
        /\ StoredContent(r1) # req[r1].a.content

PeerSwallowingOps ==
    {"createNode", "updateNode", "importNodes", "deleteNodes",
     "createEdge", "updateEdge", "deleteEdge", "clearGraph"}

\* the document change request r committed is what the store holds
Committed(r) ==
    LET q == req[r]
    IN  IF q.op = "clearGraph" THEN ~HasDoc(q.user)
        ELSE IF q.op = "deleteNodes"
        THEN LET ids == SeqToSet(q.a.nodeIds)
             IN  /\ Nodes(FindOne(q.user)) = {n \in Nodes(q.pre) : n.id \notin ids}
                 /\ Edges(FindOne(q.user)) =
                       {e \in Edges(q.pre) : e.source \notin ids /\ e.target \notin ids}
        ELSE FindOne(q.user) = q.mem

\* C5: when the document commit succeeded and the peer call that follows it
\* failed or timed out, the operation still returns its success result and the
\* committed change stays in the document.
C5_PeerFailureSwallowed ==
    \A r \in Reqs :
        (Latest(r) /\ req[r].op \in PeerSwallowingOps /\ req[r].peerErr)
        => (req[r].out = "ok" /\ Committed(r))

\* C5 witness: a mutation whose peer call failed, with its change in the document
C5_Witness ==
    \E r \in Reqs :
        /\ Latest(r) /\ req[r].op \in PeerSwallowingOps /\ req[r].peerErr
        /\ req[r].out = "ok" /\ FindOne(req[r].user) # req[r].pre

StoreOps ==
    {"getGraph", "createNode", "updateNode", "importNodes", "deleteNodes",
     "createEdge", "updateEdge", "deleteEdge", "clearGraph", "calculateCluster"}

\* C6: when a read or a write of the document store fails, the operation is
\* aborted and the failure is surfaced to the caller.
C6_StoreFailureSurfaced ==
    \A r \in Reqs :
        (Done(r) /\ req[r].op \in StoreOps /\ req[r].storeErr) => req[r].out = "threw"

\* C7: updateEdge replaces the label sequence of the edge: an array is stored
\* as given, a string as a one-element sequence, an absent label as the empty
\* sequence, and no old label outside the new value survives.
C7_UpdateEdgeReplaces ==
    \A r \in Reqs :
        (Latest(r) /\ req[r].op = "updateEdge" /\ req[r].out = "ok")
        => LET l == req[r].a.label
               d == FindOne(req[r].user)
               old == EdgeOf(req[r].pre, req[r].a.source, req[r].a.target)
               new == EdgeOf(d, req[r].a.source, req[r].a.target)
               value == IF l.k = "arr" THEN SeqToSet(l.a)
                        ELSE IF l.k = "str" THEN {l.s} ELSE {}
           IN  /\ new.id = old.id
               /\ l.k = "arr" => new.label = l.a
               /\ l.k = "str" => new.label = <<l.s>>
               /\ l.k = "undef" => new.label = <<>>
               /\ \A x \in SeqToSet(old.label) : x \notin value => ~Includes(new.label, x)

\* C7 witness: an updateEdge that stored a new label and dropped an old one
C7_Witness ==
    \E r \in Reqs :
        /\ Latest(r) /\ req[r].op = "updateEdge" /\ req[r].out = "ok"
        /\ LET old == EdgeOf(req[r].pre, req[r].a.source, req[r].a.target)
               new == EdgeOf(FindOne(req[r].user), req[r].a.source, req[r].a.target)
           IN  /\ new.label # <<>>
               /\ \E x \in SeqToSet(old.label) : ~Includes(new.label, x)

DocsOf(u) == {d \in docs : d.userId = u}

\* C8: in every reachable state, concurrent first accesses included, the
\* store holds at most one graph document per user.
C8_OneDocumentPerUser == \A u \in Users : Cardinality(DocsOf(u)) <= 1

\* C8 witness: two first accesses of one user raced: one has inserted its
\* document, the other found none and is about to insert its own
C8_Witness ==
    \E r \in Reqs : req[r].pc = "insert" /\ HasDoc(req[r].user)

\* C9: getOrCreate is idempotent: it returns the stored document when there is
\* one and creates an empty one only when there is none, it does not fail for
\* an absent document, and two calls with no mutation in between return the
\* same nodes and edges.
C9_GetOrCreateIdempotent ==
    /\ \A r \in Reqs :
          (Done(r) /\ req[r].op = "getGraph" /\ ~req[r].storeErr)
          => /\ req[r].out = "ok"
             /\ (req[r].pre # NoDoc /\ req[r].quiet) => req[r].graph = req[r].pre
             /\ req[r].pre = NoDoc =>
                   req[r].graph = NewGraphDoc(req[r].graph.docId, req[r].user)
             /\ Latest(r) => DocsOf(req[r].user) = {req[r].graph}
    /\ \A r1, r2 \in Reqs :
          (/\ r2 = r1 + 1 /\ Done(r2)
           /\ req[r1].op = "getGraph" /\ req[r2].op = "getGraph"
           /\ req[r1].user = req[r2].user
           /\ req[r1].out = "ok" /\ req[r2].out = "ok")
          => (/\ req[r2].graph.nodes = req[r1].graph.nodes
              /\ req[r2].graph.edges = req[r1].graph.edges
              /\ req[r2].graph.docId = req[r1].graph.docId)

\* C9 witness: a first call created the document and a second call found it
C9_Witness ==
    \E r1, r2 \in Reqs :
        /\ r2 = r1 + 1 /\ Done(r2)
        /\ req[r1].op = "getGraph" /\ req[r2].op = "getGraph"
        /\ req[r1].user = req[r2].user
        /\ req[r1].out = "ok" /\ req[r2].out = "ok"
        /\ req[r1].pre = NoDoc /\ req[r2].pre # NoDoc

\* C10: getRecommendations returns only ids of nodes of the user's current
\* document, each of them an id the strategy returned.
C10_RecommendationsFiltered ==
    \A r \in Reqs :
        (Latest(r) /\ req[r].op = "getRecommendations")
        => \A i \in 1..Len(req[r].res.ids) :
              /\ req[r].res.ids[i] \in NodeIds(FindOne(req[r].user))
              /\ Includes(req[r].recs, req[r].res.ids[i])

\* C10 witness: the strategy returned an id that is no node of the document
\* next to one that is, and only the latter was returned
C10_Witness ==
    \E r \in Reqs :
        /\ Latest(r) /\ req[r].op = "getRecommendations" /\ req[r].out = "ok"
        /\ req[r].res.ids # <<>>
        /\ Len(req[r].res.ids) < Len(req[r].recs)


\* C11: getRecommendations never propagates an error: it always returns, and
\* for a method that is not registered (an inherited property name included),
\* a failing strategy or peer, or a failing document store it returns the
\* empty sequence.
C11_RecommendationsNeverThrow ==
    \A r \in Reqs :
        (Done(r) /\ req[r].op = "getRecommendations")
        => /\ req[r].out = "ok"
           /\ (\/ req[r].a.method \notin Methods
               \/ req[r].peerErr
               \/ req[r].storeErr) => req[r].res.ids = <<>>

\* C11 witness: the strategy returned ids, the document store then failed, and
\* the call returned the empty sequence; and a call with a method name that is
\* not registered but inherited loaded the document and returned the empty
\* sequence
C11_Witness ==
    \E r1, r2 \in Reqs :
        /\ Done(r1) /\ req[r1].op = "getRecommendations"
        /\ req[r1].storeErr /\ req[r1].recs # <<>>
        /\ req[r1].out = "ok" /\ req[r1].res.ids = <<>>
        /\ Done(r2) /\ req[r2].op = "getRecommendations"
        /\ req[r2].a.method \in InheritedNames /\ ~req[r2].storeErr
        /\ req[r2].graph.nodes # <<>>
        /\ req[r2].out = "ok" /\ req[r2].res.ids = <<>>

\* C12: getGraph with a conversationId returns exactly the nodes of that
\* conversation and exactly the edges with both endpoints among them; without
\* one it returns every node and every edge of the document.
C12_GetGraphFilter ==
    \A r \in Reqs :
        (Done(r) /\ req[r].op = "getGraph" /\ req[r].out = "ok")
        => LET g == req[r].graph
               conv == req[r].a.conv
               kept == {n \in Nodes(g) : n.scid = conv}
               keptIds == {n.id : n \in kept}
           IN  IF conv = Null
               THEN req[r].res.nodes = g.nodes /\ req[r].res.edges = g.edges
               ELSE /\ Nodes(req[r].res) = kept
                    /\ Len(req[r].res.nodes) = Cardinality(kept)
                    /\ Edges(req[r].res) =
                          {e \in Edges(g) : e.source \in keptIds /\ e.target \in keptIds}
                    /\ Len(req[r].res.edges) = Cardinality(Edges(req[r].res))

\* C12, as the code does it: getGraph tests the conversationId for truthiness.
\* With a non-empty conversationId it returns exactly the nodes of that
\* conversation and exactly the edges with both endpoints among them; with
\* none, or with the empty string, it returns every node and every edge.
C12_GetGraphFilterNonEmpty ==
    \A r \in Reqs :
        (Done(r) /\ req[r].op = "getGraph" /\ req[r].out = "ok")
            => LET g == req[r].graph
                   conv == req[r].a.conv
                   kept == {n \in Nodes(g) : n.scid = conv}
                   keptIds == {n.id : n \in kept}
               IN  IF conv \in {Null, ""}
                   THEN req[r].res.nodes = g.nodes /\ req[r].res.edges = g.edges
                   ELSE /\ Nodes(req[r].res) = kept
                        /\ Len(req[r].res.nodes) = Cardinality(kept)
                        /\ Edges(req[r].res) =
                              {e \in Edges(g) : e.source \in keptIds /\ e.target \in keptIds}
                        /\ Len(req[r].res.edges) = Cardinality(Edges(req[r].res))

\* C12 witness: a filtered view that returns an edge and leaves out an edge
\* with one endpoint in the conversation, and a call with the empty string
\* that returned the nodes and edges of the whole document
C12_Witness ==
    \E r1, r2 \in Reqs :
        /\ Done(r1) /\ req[r1].op = "getGraph" /\ req[r1].out = "ok"
        /\ req[r1].a.conv \notin {Null, ""}
        /\ req[r1].res.edges # <<>>
        /\ \E e \in Edges(req[r1].graph) :
              /\ e \notin Edges(req[r1].res)
              /\ e.source \in NodeIds(req[r1].res)
        /\ Done(r2) /\ req[r2].op = "getGraph" /\ req[r2].out = "ok"
        /\ req[r2].a.conv = ""
        /\ req[r2].res.nodes # <<>> /\ req[r2].res.edges # <<>>
        /\ req[r2].res.nodes = req[r2].graph.nodes

\* the node or the edge the request addresses is not in the document
NotFound(r) ==
    \/ req[r].op = "updateNode" /\ IndexOfNode(req[r].pre, req[r].a.nodeId) = 0
    \/ /\ req[r].op \in {"updateEdge", "deleteEdge"}
       /\ IndexOfEdge(req[r].pre, req[r].a.source, req[r].a.target) = 0

\* C13: updateNode on a node id that is not in the document, and updateEdge
\* or deleteEdge on a pair with no edge, fail with an error, leave the nodes
\* and edges of the document as they were and issue no peer call.
C13_NotFoundFails ==
    \A r \in Reqs :
        (Latest(r) /\ NotFound(r))
        => /\ req[r].out = "threw"
           /\ FindOne(req[r].user).nodes = req[r].pre.nodes
           /\ FindOne(req[r].user).edges = req[r].pre.edges
           /\ req[r].calls = <<>>

\* C13 witness: the store did not fail, the document has nodes, and the call
\* threw for a missing node or edge
C13_Witness ==
    \E r \in Reqs :
        /\ Latest(r) /\ NotFound(r) /\ ~req[r].storeErr
        /\ req[r].pre.nodes # <<>>
        /\ req[r].out = "threw"


\* the candidates of the user's messages that the request asks for
Resolved(r) ==
    UNION {CandidateIds(Messages[i]) \cap SeqToSet(req[r].a.nodeIds) :
             i \in {j \in 1..Len(Messages) : Messages[j].user = req[r].user}}

\* C14: importNodes fails with an error when none of the requested ids
\* resolves to a candidate of the user's messages, and then adds no node to
\* the document and sends nothing to the peer.
C14_ImportNothingFails ==
    \A r \in Reqs :
        (Latest(r) /\ req[r].op = "importNodes" /\ Resolved(r) = {})
        => /\ req[r].out = "threw"
           /\ FindOne(req[r].user).nodes = req[r].pre.nodes
           /\ req[r].calls = <<>>

\* C15: a successful importNodes leaves every imported candidate curated, and
\* importing candidates that are all curated already adds no node to the
\* document.
C15_CuratedPreventsReimport ==
    \A r \in Reqs :
        (Latest(r) /\ req[r].op = "importNodes" /\ req[r].out = "ok")
        => /\ Resolved(r) \subseteq curated
           /\ (Resolved(r) # {} /\ Resolved(r) \subseteq req[r].cur)
                 => FindOne(req[r].user).nodes = req[r].pre.nodes

\* the kind of peer call that propagates an operation
KindOf(op) ==
    CASE op \in {"createNode", "updateNode", "importNodes"} -> "embed_node"
      [] op \in {"createEdge", "updateEdge"} -> "embed_edge"
      [] op \in {"deleteNodes", "deleteEdge"} -> "delete"
      [] op = "clearGraph" -> "reset"
      [] OTHER -> "none"

OneCallOps ==
    {"createNode", "importNodes", "createEdge", "updateEdge",
     "deleteNodes", "deleteEdge", "clearGraph"}

\* C16: each successful createNode, importNodes, createEdge, updateEdge,
\* deleteNodes, deleteEdge and clearGraph has issued exactly one peer call, of
\* the kind of the operation, whether that call succeeded or failed: a failed
\* call is not sent again.
C16_OnePeerCall ==
    \A r \in Reqs :
        (Done(r) /\ req[r].op \in OneCallOps /\ req[r].out = "ok")
        => /\ Len(req[r].calls) = 1
           /\ req[r].calls[1].kind = KindOf(req[r].op)

\* C16 witness: a successful mutation whose single peer call failed
C16_Witness ==
    \E r \in Reqs :
        /\ Done(r) /\ req[r].op \in OneCallOps /\ req[r].out = "ok"
        /\ req[r].peerErr /\ Len(req[r].calls) = 1

\* C17: the document is committed before the peer is called: a request about
\* to issue its peer call has had no store failure and has its change in the
\* store, and a request whose store write failed issues no peer call.
C17_CommitBeforePeer ==
    \A r \in Reqs :
        req[r].op \in PeerSwallowingOps
        => /\ (/\ req[r].pc = "peer" /\ req[r].quiet
                /\ \A p \in Reqs : p > r => req[p].pc = "idle")
                 => (~req[r].storeErr /\ Committed(r))
           /\ req[r].storeErr => (req[r].calls = <<>> /\ req[r].pc # "peer")

\* C17 witness: a request with its change committed is about to call the
\* peer, and an earlier request whose write failed made no call
C17_Witness ==
    \E r1, r2 \in Reqs :
        /\ req[r1].op \in PeerSwallowingOps /\ req[r1].storeErr /\ req[r1].calls = <<>>
        /\ req[r2].op \in PeerSwallowingOps /\ req[r2].pc = "peer"
        /\ FindOne(req[r2].user) # req[r2].pre


\* C18: every operation that calls the peer bounds the call with a timeout,
\* so a request that has started eventually returns to its caller, even when
\* the peer never responds.
C18_PeerCallsBounded ==
    \A r \in Reqs : (req[r].pc # "idle") ~> Done(r)


\* C19: clearGraph deletes the user's document and then requests a reset of
\* the user's vectors: when the deletion fails it throws and requests no
\* reset; otherwise it reports success with the document gone and exactly one
\* reset requested, also when the reset fails.
C19_ClearGraph ==
    \A r \in Reqs :
        (Latest(r) /\ req[r].op = "clearGraph")
        => IF req[r].storeErr
           THEN /\ req[r].out = "threw"
                /\ req[r].calls = <<>>
                /\ FindOne(req[r].user) = req[r].pre
           ELSE /\ req[r].out = "ok"
                /\ ~HasDoc(req[r].user)
                /\ Len(req[r].calls) = 1 /\ req[r].calls[1].kind = "reset"
                /\ ~req[r].peerErr => index[req[r].user] = {}

\* C19 witness: the document was deleted, the reset failed, the vectors are
\* still there and clearGraph reported success
C19_Witness ==
    \E r \in Reqs :
        /\ Latest(r) /\ req[r].op = "clearGraph"
        /\ req[r].pre # NoDoc /\ ~HasDoc(req[r].user)
        /\ req[r].peerErr /\ index[req[r].user] # {}
        /\ req[r].out = "ok"

\* the label sequence updateNode stores for a labels / label argument
Wrapped(l) == IF l.k = "arr" THEN l.a ELSE <<l.s>>

\* C20: updateNode changes only the supplied fields of the addressed node:
\* a supplied field takes the given value (labels before label), every other
\* field of the node, every other node and every edge stay as they were.
C20_UpdateNodeFrame ==
    \A r \in Reqs :
        (Latest(r) /\ req[r].op = "updateNode" /\ req[r].out = "ok")
        => LET a == req[r].a
               d == FindOne(req[r].user)
               i == IndexOfNode(req[r].pre, a.nodeId)
               old == req[r].pre.nodes[i]
               new == d.nodes[i]
           IN  /\ d.edges = req[r].pre.edges
               /\ Len(d.nodes) = Len(req[r].pre.nodes)
               /\ \A j \in 1..Len(d.nodes) : j # i => d.nodes[j] = req[r].pre.nodes[j]
               /\ new.id = old.id
               /\ new.label = IF "labels" \in a.given THEN Wrapped(a.labels)
                              ELSE IF "label" \in a.given THEN Wrapped(a.label)
                              ELSE old.label
               /\ new.x = IF "x" \in a.given THEN a.x ELSE old.x
               /\ new.y = IF "y" \in a.given THEN a.y ELSE old.y
               /\ new.content = IF "content" \in a.given THEN a.content ELSE old.content
               /\ new.smid = IF "smid" \in a.given THEN a.smid ELSE old.smid
               /\ new.scid = IF "scid" \in a.given THEN a.scid ELSE old.scid

\* C20 witness: an updateNode changed the supplied content and kept a
\* non-default y that was not supplied, and a later updateNode given both
\* label and labels stored the sequence of labels
C20_Witness ==
    \E r1, r2 \in Reqs :
        /\ Done(r1) /\ req[r1].op = "updateNode" /\ req[r1].out = "ok"
        /\ "content" \in req[r1].a.given /\ "y" \notin req[r1].a.given
        /\ LET i == IndexOfNode(req[r1].graph, req[r1].a.nodeId)
           IN  /\ req[r1].mem.nodes[i].content # req[r1].graph.nodes[i].content
               /\ req[r1].mem.nodes[i].y = req[r1].graph.nodes[i].y
               /\ req[r1].mem.nodes[i].y # 0
        /\ Latest(r2) /\ req[r2].op = "updateNode" /\ req[r2].out = "ok"
        /\ {"label", "labels"} \subseteq req[r2].a.given
        /\ Wrapped(req[r2].a.label) # Wrapped(req[r2].a.labels)
        /\ LET d == FindOne(req[r2].user)
           IN  d.nodes[IndexOfNode(d, req[r2].a.nodeId)].label = Wrapped(req[r2].a.labels)


\* the entries of the peer's layout response that name the node with this id
Named(r, id) == {i \in 1..Len(req[r].umap) : req[r].umap[i].id = id}

\* C21: after a successful calculateCluster every node named in the peer's
\* response has x and y at 250 times the returned values, an id that is not
\* in the document is skipped without stopping the entries after it, and
\* every other node, every other field and every edge are as before.
C21_ClusterScalesAndSkips ==
    \A r \in Reqs :
        (Latest(r) /\ req[r].op = "calculateCluster" /\ req[r].out = "ok")
        => LET d == FindOne(req[r].user)
               pre == req[r].pre
           IN  /\ d.edges = pre.edges
               /\ Len(d.nodes) = Len(pre.nodes)
               /\ \A j \in 1..Len(pre.nodes) :
                     IF Named(r, pre.nodes[j].id) = {}
                     THEN d.nodes[j] = pre.nodes[j]
                     ELSE \E i \in Named(r, pre.nodes[j].id) :
                             d.nodes[j] = [pre.nodes[j] EXCEPT
                                             !.x = 250 * req[r].umap[i].x,
                                             !.y = 250 * req[r].umap[i].y]

\* C21 witness: the response named an id that is not in the document before
\* one that is, and the coordinates of the latter were rescaled
C21_Witness ==
    \E r \in Reqs :
        /\ Latest(r) /\ req[r].op = "calculateCluster" /\ req[r].out = "ok"
        /\ \E i, k \in 1..Len(req[r].umap) :
              /\ i < k
              /\ req[r].umap[i].id \notin NodeIds(req[r].pre)
              /\ LET j == IndexOfNode(req[r].pre, req[r].umap[k].id)
                 IN  /\ j # 0
                     /\ FindOne(req[r].user).nodes[j].x = 250 * req[r].umap[k].x
                     /\ FindOne(req[r].user).nodes[j].x # req[r].pre.nodes[j].x

\* C22: calculateCluster returns the peer's response as it came, with the
\* normalized coordinates, and a getGraph that follows returns the named nodes
\* with the coordinates multiplied by 250.
C22_ClusterReturnsRaw ==
    /\ \A r \in Reqs :
          (Done(r) /\ req[r].op = "calculateCluster" /\ req[r].out = "ok")
          => req[r].res.umap = req[r].umap
    /\ \A r1, r2 \in Reqs :
          (/\ r2 = r1 + 1 /\ Done(r2)
           /\ req[r1].op = "calculateCluster" /\ req[r1].out = "ok"
           /\ req[r2].op = "getGraph" /\ req[r2].out = "ok"
           /\ req[r2].user = req[r1].user /\ req[r2].a.conv = Null)
          => \A n \in Nodes(req[r2].res) :
                Named(r1, n.id) # {}
                => \E i \in Named(r1, n.id) :
                      n.x = 250 * req[r1].umap[i].x /\ n.y = 250 * req[r1].umap[i].y

\* C22 witness: calculateCluster returned a normalized x that is not 0, and
\* the getGraph after it returned the node with 250 times that x
C22_Witness ==
    \E r1, r2 \in Reqs :
        /\ r2 = r1 + 1 /\ Done(r2)
        /\ req[r1].op = "calculateCluster" /\ req[r1].out = "ok"
        /\ req[r2].op = "getGraph" /\ req[r2].out = "ok"
        /\ req[r2].user = req[r1].user
        /\ \E i \in 1..Len(req[r1].res.umap) : \E n \in Nodes(req[r2].res) :
              /\ n.id = req[r1].res.umap[i].id
              /\ req[r1].res.umap[i].x # 0
              /\ n.x = 250 * req[r1].res.umap[i].x


NodeIdSeq(d) == [i \in 1..Len(d.nodes) |-> d.nodes[i].id]
EdgeIdSeq(d) == [i \in 1..Len(d.edges) |-> d.edges[i].id]
AllIds(ds) == UNION {NodeIds(d) \cup EdgeIds(d) : d \in ds}

\* the node ids and edge ids of every document are pairwise distinct
IdsDistinct(ds) == \A d \in ds : NoDup(NodeIdSeq(d) \o EdgeIdSeq(d))

\* the save of a handler that removes nothing keeps the id of every node and
\* edge of the document; createEdge may append one edge
IdsStable ==
    \A r \in Reqs :
        (/\ req[r].pc = "save" /\ req'[r].pc # "save"
         /\ req[r].op \in {"updateNode", "createEdge", "updateEdge", "calculateCluster"})
        => \A d \in docs : \A e \in docs' :
              d.docId = e.docId
              => /\ NodeIdSeq(e) = NodeIdSeq(d)
                 /\ \/ EdgeIdSeq(e) = EdgeIdSeq(d)
                    \/ /\ req[r].op = "createEdge"
                       /\ Len(e.edges) = Len(d.edges) + 1
                       /\ SubSeq(EdgeIdSeq(e), 1, Len(d.edges)) = EdgeIdSeq(d)

\* C23: the node ids and edge ids of a document are pairwise distinct in
\* every state; updateNode, createEdge, updateEdge and calculateCluster keep
\* the id of every node and edge; and an id that appears in a document was
\* never in use before: it is taken from a generator that only moves forward
\* and stays above every id assigned so far.
C23_IdsUniqueStableFresh ==
    [][ /\ IdsDistinct(docs) /\ IdsDistinct(docs')
        /\ IdsStable
        /\ \A i \in AllIds(docs) : i < nextId
        /\ \A i \in AllIds(docs') \ AllIds(docs) : i >= nextId /\ i < nextId'
        /\ nextId' >= nextId ]_vars

\* C23 witness: a deleteNodes removed nodes and the createNode after it
\* stored a node whose id no node or edge had before
C23_Witness ==
    \E r1, r2 \in Reqs :
        /\ r2 = r1 + 1 /\ Latest(r2) /\ Done(r1)
        /\ req[r1].op = "deleteNodes" /\ req[r1].out = "ok"
        /\ req[r2].op = "createNode" /\ req[r2].out = "ok"
        /\ req[r2].user = req[r1].user
        /\ Len(req[r2].pre.nodes) < Len(req[r1].pre.nodes)
        /\ LET d == FindOne(req[r2].user)
           IN  /\ Len(d.nodes) = Len(req[r2].pre.nodes) + 1
               /\ d.nodes[Len(d.nodes)].id \notin NodeIds(req[r1].pre) \cup EdgeIds(req[r1].pre)


CandidatesOf(u) ==
    UNION {CandidateIds(Messages[i]) : i \in {j \in 1..Len(Messages) : Messages[j].user = u}}

\* C25: a step of an operation invoked for user u loads only a document of u,
\* leaves the documents and the vectors of every other user as they are,
\* flags only candidates of u's messages, and returns no node or edge of
\* another user's document.
C25_UserIsolation ==
    [][ \A r \in Reqs :
           req'[r] # req[r]
           => LET u == req'[r].user
              IN  /\ req'[r].graph.userId \in {u, NoDoc.userId}
                  /\ \A v \in Users \ {u} :
                        /\ {d \in docs' : d.userId = v} = {d \in docs : d.userId = v}
                        /\ index'[v] = index[v]
                  /\ (curated' \ curated) \subseteq CandidatesOf(u)
                  /\ (req'[r].pc = "done" /\ req'[r].out = "ok")
                        => \A d \in docs' :
                              d.userId # u
                              => /\ \A n \in Nodes(req'[r].res) : n.id \notin NodeIds(d)
                                 /\ \A e \in Edges(req'[r].res) : e.id \notin EdgeIds(d) ]_vars

\* C25 witness: an operation changed the document of its user while another
\* user's document with nodes was in the store
C25_Witness ==
    \E r \in Reqs :
        /\ Latest(r) /\ req[r].out = "ok"
        /\ FindOne(req[r].user) # req[r].pre
        /\ FindOne(req[r].user).nodes # <<>>
        /\ \E d \in docs : d.userId # req[r].user /\ d.nodes # <<>>


\* the ids an edge of the document names as source or target
Endpoints(d) == {d.edges[i].source : i \in 1..Len(d.edges)} \cup
                {d.edges[i].target : i \in 1..Len(d.edges)}

\* C26, as stated: deleteNodes with a non-empty list succeeds and returns the
\* number of ids requested, and when no listed id is a node of the document
\* no node and no edge changes.
C26_AbsentIdsChangeNothing ==
    \A r \in Reqs :
        (/\ Latest(r) /\ req[r].op = "deleteNodes" /\ ~req[r].storeErr
         /\ req[r].a.nodeIds # <<>>)
        => /\ req[r].out = "ok"
           /\ req[r].res.count = Len(req[r].a.nodeIds)
           /\ SeqToSet(req[r].a.nodeIds) \cap NodeIds(req[r].pre) = {}
                 => /\ FindOne(req[r].user).nodes = req[r].pre.nodes
                    /\ FindOne(req[r].user).edges = req[r].pre.edges

\* C26, amended: deleteNodes with a non-empty list succeeds and returns the
\* number of ids requested whether or not the ids are in the document; when
\* no listed id is a node no node changes, and when no listed id is named by
\* an edge as source or target no edge changes (an edge that names a listed
\* id is removed even when that id is no node of the document).
C26_DeleteNodesCountsRequested ==
    \A r \in Reqs :
        (/\ Latest(r) /\ req[r].op = "deleteNodes" /\ ~req[r].storeErr
         /\ req[r].a.nodeIds # <<>>)
        => /\ req[r].out = "ok"
           /\ req[r].res.count = Len(req[r].a.nodeIds)
           /\ SeqToSet(req[r].a.nodeIds) \cap NodeIds(req[r].pre) = {}
                 => FindOne(req[r].user).nodes = req[r].pre.nodes
           /\ SeqToSet(req[r].a.nodeIds) \cap Endpoints(req[r].pre) = {}
                 => FindOne(req[r].user).edges = req[r].pre.edges

\* C26 witness: a deleteNodes for an id that is in no node and no edge of a
\* document with nodes and edges returned the count requested
C26_Witness ==
    \E r \in Reqs :
        /\ Latest(r) /\ req[r].op = "deleteNodes" /\ req[r].out = "ok"
        /\ req[r].a.nodeIds # <<>>
        /\ SeqToSet(req[r].a.nodeIds) \cap (NodeIds(req[r].pre) \cup Endpoints(req[r].pre)) = {}
        /\ req[r].pre.nodes # <<>> /\ req[r].pre.edges # <<>>
        /\ req[r].res.count = Len(req[r].a.nodeIds)
        /\ FindOne(req[r].user) = req[r].pre

\* C27: deleteNodes with an empty id list is rejected: it fails with an
\* error, changes nothing in the document and sends no delete to the peer.
C27_EmptyListRejected ==
    \A r \in Reqs :
        (Latest(r) /\ req[r].op = "deleteNodes" /\ req[r].a.nodeIds = <<>>)
        => /\ req[r].out = "threw"
           /\ FindOne(req[r].user) = req[r].pre
           /\ req[r].calls = <<>>

\* C28, as stated: updateNode issues an embed_node call when, and only when,
\* the update changes the content of the node.
C28_EmbedIffContentChanges ==
    \A r \in Reqs :
        (Latest(r) /\ req[r].op = "updateNode" /\ req[r].out = "ok")
        => LET i == IndexOfNode(req[r].pre, req[r].a.nodeId)
           IN  req[r].calls # <<>>
                  <=> FindOne(req[r].user).nodes[i].content # req[r].pre.nodes[i].content

\* C28, amended: updateNode issues one embed_node call when, and only when,
\* a content field is supplied, also when the supplied content is the one the
\* node already has; an update without a content field issues no call; the
\* call carries the id of the node and its content as persisted.
C28_EmbedIffContentSupplied ==
    \A r \in Reqs :
        (Latest(r) /\ req[r].op = "updateNode" /\ req[r].out = "ok")
        => LET d == FindOne(req[r].user)
               n == d.nodes[IndexOfNode(d, req[r].a.nodeId)]
           IN  IF "content" \in req[r].a.given
               THEN /\ Len(req[r].calls) = 1
                    /\ req[r].calls[1].kind = "embed_node"
                    /\ req[r].calls[1].ids = <<n.id>>
                    /\ Len(req[r].calls[1].entries) = 1
                    /\ req[r].calls[1].entries[1].id = n.id
                    /\ req[r].calls[1].entries[1].content = n.content
               ELSE req[r].calls = <<>>

\* C28 witness: an updateNode supplied the content the node already had and
\* the embed_node call was issued
C28_Witness ==
    \E r \in Reqs :
        /\ Latest(r) /\ req[r].op = "updateNode" /\ req[r].out = "ok"
        /\ "content" \in req[r].a.given
        /\ LET i == IndexOfNode(req[r].pre, req[r].a.nodeId)
           IN  req[r].pre.nodes[i].content = req[r].a.content
        /\ Len(req[r].calls) = 1


\* C29: the embed_edge call of createEdge and of updateEdge carries the id of
\* the edge and the label sequence of the edge as that operation persisted it.
C29_EdgePayloadIsPersisted ==
    \A r \in Reqs :
        (Done(r) /\ req[r].op \in {"createEdge", "updateEdge"} /\ req[r].out = "ok")
        => LET edge == EdgeOf(req[r].mem, req[r].a.source, req[r].a.target)
           IN  /\ Len(req[r].calls) = 1
               /\ req[r].calls[1].kind = "embed_edge"
               /\ Len(req[r].calls[1].entries) = 1
               /\ req[r].calls[1].entries[1].id = edge.id
               /\ LabelsOf(req[r].calls[1].entries[1].label) = edge.label

\* the node a successful createNode stored
Created(r) ==
    LET d == FindOne(req[r].user) IN d.nodes[Len(d.nodes)]

\* what createNode does apart from the label it stores
CreateNodeFrame(r) ==
    LET d == FindOne(req[r].user)
        a == req[r].a
        n == Created(r)
    IN  /\ d.nodes = req[r].pre.nodes \o <<n>>
        /\ d.edges = req[r].pre.edges
        /\ n.id \notin AllIds(docs \ {d}) \cup NodeIds(req[r].pre) \cup EdgeIds(req[r].pre)
        /\ n.content = a.content /\ n.x = a.x /\ n.y = a.y
        /\ n.smid = OrNull(a.smid) /\ n.scid = OrNull(a.scid)
        /\ req[r].res.nodes = <<n>>

\* C30, as stated: createNode appends exactly one node with a fresh id and
\* changes nothing else; the stored label is the given sequence, a one-element
\* sequence for a scalar label, or empty when no label is given; the other
\* fields take the given values or their defaults; the returned node is the
\* stored one.
C30_CreateNodeWrapsScalar ==
    \A r \in Reqs :
        (Latest(r) /\ req[r].op = "createNode" /\ req[r].out = "ok")
        => /\ CreateNodeFrame(r)
           /\ Created(r).label =
                 IF req[r].a.label.k = "arr" THEN req[r].a.label.a
                 ELSE IF req[r].a.label.k = "str" THEN <<req[r].a.label.s>>
                 ELSE <<>>

\* C30, amended: as C30, with the stored label a one-element sequence for a
\* non-empty scalar label and empty when no label or the empty string is given;
\* a provenance field is null when it is not given or given as the empty string.
C30_CreateNode ==
    \A r \in Reqs :
        (Latest(r) /\ req[r].op = "createNode" /\ req[r].out = "ok")
        => /\ CreateNodeFrame(r)
           /\ Created(r).label =
                 IF req[r].a.label.k = "arr" THEN req[r].a.label.a
                 ELSE IF req[r].a.label.k = "str" /\ req[r].a.label.s # ""
                      THEN <<req[r].a.label.s>>
                 ELSE <<>>

\* C30 witness: createNode with the empty string as label and as provenance
\* ids appended a node with an empty label sequence and null provenance to a
\* document that had nodes
C30_Witness ==
    \E r \in Reqs :
        /\ Latest(r) /\ req[r].op = "createNode" /\ req[r].out = "ok"
        /\ req[r].a.label = LStr("")
        /\ req[r].a.smid = "" /\ req[r].a.scid = ""
        /\ Created(r).smid = Null /\ Created(r).scid = Null
        /\ req[r].pre.nodes # <<>>
        /\ Len(FindOne(req[r].user).nodes) = Len(req[r].pre.nodes) + 1
        /\ Created(r).label = <<>>

EdgeOps == {"createEdge", "updateEdge", "deleteEdge"}

\* C31: every successful createEdge, updateEdge and deleteEdge sets updatedAt
\* of each endpoint node that is in the document to the time of the operation,
\* changes no other field of those nodes, and changes no other node.
C31_EdgeOpsTouchEndpoints ==
    \A r \in Reqs :
        (Latest(r) /\ req[r].op \in EdgeOps /\ req[r].out = "ok")
        => LET d == FindOne(req[r].user)
               pre == req[r].pre
               ends == {req[r].a.source, req[r].a.target}
           IN  /\ Len(d.nodes) = Len(pre.nodes)
               /\ \A i \in 1..Len(pre.nodes) :
                     d.nodes[i] = IF pre.nodes[i].id \in ends
                                  THEN [pre.nodes[i] EXCEPT !.updatedAt = now]
                                  ELSE pre.nodes[i]

\* C31 witness: an edge operation on a pair with both endpoints in the
\* document refreshed them, next to a node it left alone
C31_Witness ==
    \E r \in Reqs :
        /\ Latest(r) /\ req[r].op \in EdgeOps /\ req[r].out = "ok"
        /\ LET d == FindOne(req[r].user)
               pre == req[r].pre
           IN  /\ IndexOfNode(pre, req[r].a.source) # 0
               /\ IndexOfNode(pre, req[r].a.target) # 0
               /\ \E i \in 1..Len(d.nodes) :
                     d.nodes[i].updatedAt = now /\ pre.nodes[i].updatedAt # now
               /\ \E i \in 1..Len(d.nodes) : d.nodes[i] = pre.nodes[i]

\* an endpoint of the pair of request r was no node of the document r found
Dangling(r) ==
    \/ IndexOfNode(req[r].pre, req[r].a.source) = 0
    \/ IndexOfNode(req[r].pre, req[r].a.target) = 0

\* C32: createEdge does not enforce referential integrity: when source or
\* target is not the id of a node of the document and the store does not fail,
\* it succeeds, the document holds the edge of the pair with the given labels
\* (a new edge, or the edge the pair already had), and the nodes it returns are
\* exactly the endpoints that are nodes of the document.
C32_CreateEdgeNoReferentialIntegrity ==
    \A r \in Reqs :
        (Latest(r) /\ req[r].op = "createEdge" /\ Dangling(r) /\ ~req[r].storeErr)
        => LET d == FindOne(req[r].user)
               pre == req[r].pre
               source == req[r].a.source
               target == req[r].a.target
               ei == IndexOfEdge(d, source, target)
               old == IndexOfEdge(pre, source, target)
           IN  /\ req[r].out = "ok"
               /\ ei # 0
               /\ \A l \in SeqToSet(LabelsOf(req[r].a.label)) : Includes(d.edges[ei].label, l)
               /\ old # 0 => (Len(d.edges) = Len(pre.edges) /\ d.edges[ei].id = pre.edges[old].id)
               /\ old = 0 => (/\ Len(d.edges) = Len(pre.edges) + 1
                              /\ d.edges[ei].id \notin AllIds({pre}))
               /\ req[r].res.edges = <<d.edges[ei]>>
               /\ SeqToSet(req[r].res.nodes) = {n \in Nodes(d) : n.id \in {source, target}}
               /\ Len(req[r].res.nodes) = Cardinality({source, target} \cap NodeIds(d))

\* C32 witness: createEdge returned one endpoint node for a pair whose other
\* endpoint is no node, once creating the edge and once merging into it
C32_Witness ==
    \E r1, r2 \in Reqs :
        /\ r1 < r2 /\ Latest(r2)
        /\ \A r \in {r1, r2} :
              /\ req[r].op = "createEdge" /\ req[r].out = "ok" /\ Dangling(r)
              /\ Len(req[r].res.nodes) = 1
        /\ IndexOfEdge(req[r1].pre, req[r1].a.source, req[r1].a.target) = 0
        /\ IndexOfEdge(req[r2].pre, req[r2].a.source, req[r2].a.target) # 0
        /\ Len(FindOne(req[r2].user).edges) = Len(req[r2].pre.edges)

\* C33: deleteEdge on a pair that has an edge removes exactly that edge, leaves
\* every other edge unchanged and in place, and asks the peer to delete exactly
\* the id of the removed edge; a createEdge for the same pair that follows
\* creates an edge with a new id that holds only the newly given labels.
C33_DeleteEdgeExact ==
    /\ \A r \in Reqs :
          (Latest(r) /\ req[r].op = "deleteEdge" /\ req[r].out = "ok")
          => LET pre == req[r].pre
                 ei == IndexOfEdge(pre, req[r].a.source, req[r].a.target)
             IN  /\ ei # 0
                 /\ FindOne(req[r].user).edges = PullEdges(pre.edges, {pre.edges[ei].id})
                 /\ Len(FindOne(req[r].user).edges) = Len(pre.edges) - 1
                 /\ req[r].calls = <<PeerCall("delete", <<pre.edges[ei].id>>, <<>>)>>
    /\ \A r1, r2 \in Reqs :
          (/\ r2 = r1 + 1 /\ Latest(r2)
           /\ req[r1].op = "deleteEdge" /\ req[r1].out = "ok"
           /\ req[r2].op = "createEdge" /\ req[r2].out = "ok"
           /\ req[r1].user = req[r2].user
           /\ req[r1].a.source = req[r2].a.source /\ req[r1].a.target = req[r2].a.target)
          => LET old == EdgeOf(req[r1].pre, req[r1].a.source, req[r1].a.target)
                 new == EdgeOf(FindOne(req[r2].user), req[r2].a.source, req[r2].a.target)
             IN  /\ new.id # old.id
                 /\ new.id \notin AllIds({req[r1].pre})
                 /\ new.label = LabelsOf(req[r2].a.label)

\* C33 witness: an edge with label a was deleted next to an edge that stayed,
\* and the edge created for its pair afterwards holds only the new label b
C33_Witness ==
    \E r1, r2 \in Reqs :
        /\ r2 = r1 + 1 /\ Latest(r2)
        /\ req[r1].op = "deleteEdge" /\ req[r1].out = "ok"
        /\ req[r2].op = "createEdge" /\ req[r2].out = "ok"
        /\ req[r1].user = req[r2].user
        /\ req[r1].a.source = req[r2].a.source /\ req[r1].a.target = req[r2].a.target
        /\ Len(req[r1].pre.edges) > 1
        /\ EdgeOf(req[r1].pre, req[r1].a.source, req[r1].a.target).label = <<"a">>
        /\ EdgeOf(FindOne(req[r2].user), req[r2].a.source, req[r2].a.target).label = <<"b">>

\* the ids the embedding service holds a vector for
IndexIds(u) == {e.id : e \in index[u]}

\* C34: in a sequential execution in which every peer call succeeds (and the
\* document store does not fail), after each operation completes the ids held
\* in the user's embedding index are the node ids and edge ids of the user's
\* document; in particular after deleteNodes the index holds no vector for an
\* edge the cascade removed.
C34_IndexMatchesDocument ==
    \A r \in Reqs :
        (/\ Latest(r)
         /\ \A p \in Reqs : ~req[p].peerErr /\ ~req[p].storeErr)
        => \A u \in Users :
              IndexIds(u) = NodeIds(FindOne(u)) \cup EdgeIds(FindOne(u))

\* two updateNode requests of one user have both set the content of one node
\* and completed, with both embedding calls delivered
BothEmbedded(r1, r2) ==
    /\ r1 # r2 /\ Done(r1) /\ Done(r2)
    /\ \A p \in Reqs \ {r1, r2} : req[p].pc = "idle"
    /\ req[r1].op = "updateNode" /\ req[r2].op = "updateNode"
    /\ req[r1].user = req[r2].user /\ req[r1].a.nodeId = req[r2].a.nodeId
    /\ "content" \in req[r1].a.given /\ "content" \in req[r2].a.given
    /\ req[r1].a.content # req[r2].a.content
    /\ req[r1].out = "ok" /\ req[r2].out = "ok"
    /\ ~req[r1].peerErr /\ ~req[r2].peerErr

\* C35: for two concurrent updateNode calls that change the content of the
\* same node and whose peer calls both succeed, once both have completed the
\* content the embedding index holds for the node is the content stored in the
\* document.
C35_IndexFollowsDocumentOrder ==
    \A r1, r2 \in Reqs :
        BothEmbedded(r1, r2)
        => \A e \in index[req[r1].user] :
              e.id = req[r1].a.nodeId => e.content = StoredContent(r1)

\* a node of ids is gone from d while d still holds an edge incident to it
Torn(d, ids) ==
    \E id \in ids :
        /\ id \notin NodeIds(d)
        /\ \E e \in Edges(d) : e.source = id \/ e.target = id

\* the nodes a deleteNodes request was asked to remove and found in the document
Requested(r) == SeqToSet(req[r].a.nodeIds) \cap NodeIds(req[r].pre)

\* a getGraph without a conversationId that ran next to request r and returned
Observer(g, r) ==
    /\ g # r /\ req[g].op = "getGraph" /\ req[g].user = req[r].user
    /\ req[g].a.conv = Null /\ Done(g) /\ req[g].out = "ok"

\* C36: deleteNodes removes the nodes and their incident edges atomically: no
\* graph returned by a concurrent getGraph, and no document left behind when
\* the edge-removal write fails, has a requested node removed while an edge
\* incident to it is still there.
C36_DeleteNodesAtomic ==
    \A r \in Reqs :
        (/\ req[r].op = "deleteNodes"
         /\ \A p \in Reqs \ {r} : req[p].pc = "idle" \/ req[p].op = "getGraph")
        => /\ Done(r) => ~Torn(FindOne(req[r].user), Requested(r))
           /\ \A g \in Reqs :
                 Observer(g, r)
                 => ~Torn([nodes |-> req[g].res.nodes, edges |-> req[g].res.edges],
                          Requested(r))

\* C37: importNodes is all-or-nothing across the message store and the graph
\* document: when the graph save or a message save fails, the operation fails,
\* no candidate is left marked curated by it and no node it added stays in the
\* document.
C37_ImportAllOrNothing ==
    \A r \in Reqs :
        (Latest(r) /\ req[r].op = "importNodes" /\ req[r].fail)
        => /\ req[r].out = "threw"
           /\ curated = req[r].cur
           /\ FindOne(req[r].user).nodes = req[r].pre.nodes

\* C38: the nodes importNodes returns and the ids of its embed_node batch are
\* exactly the nodes the call appended to the document, one per resolved
\* candidate, and none of them was in the document before the call.
C38_ImportReturnsAppended ==
    \A r \in Reqs :
        (Latest(r) /\ req[r].op = "importNodes" /\ req[r].out = "ok")
        => LET d == FindOne(req[r].user)
               pre == req[r].pre
               res == req[r].res.nodes
           IN  /\ d.nodes = pre.nodes \o res
               /\ Len(res) = Cardinality(Resolved(r))
               /\ \A i \in 1..Len(res) : res[i].id \notin NodeIds(pre)
               /\ Len(req[r].calls) = 1
               /\ req[r].calls[1].kind = "embed_node"
               /\ req[r].calls[1].ids = [i \in 1..Len(res) |-> res[i].id]

ReadOps == {"getGraph", "getRecommendations"}

\* C39: getGraph and getRecommendations are read-only on graph content: no
\* step of theirs adds, removes or changes a node or an edge of a stored
\* document or sends a mutation call (embed_node, embed_edge, delete, reset)
\* to the peer; the only write they make is the insertion of an empty document
\* for a user for whom the lookup found none.
C39_ReadOpsReadOnly ==
    [][\A r \in Reqs :
          (req[r].op \in ReadOps /\ req'[r] # req[r])
          => /\ \/ docs' = docs
                \/ /\ req[r].pc = "insert"
                   /\ \E d \in docs' :
                         /\ docs' = docs \cup {d}
                         /\ d.userId = req[r].user /\ d.nodes = <<>> /\ d.edges = <<>>
             /\ index' = index
             /\ curated' = curated
             /\ req'[r].calls = <<>>]_vars

\* C39 witness: a getRecommendations has returned ids for a user whose
\* document holds nodes and edges, and a getGraph has created the empty
\* document of a user that had none
C39_Witness ==
    \E r1, r2 \in Reqs :
        /\ Done(r1) /\ Done(r2)
        /\ req[r1].op = "getRecommendations" /\ req[r1].res.ids # <<>>
        /\ FindOne(req[r1].user).edges # <<>>
        /\ req[r2].op = "getGraph" /\ req[r2].out = "ok"
        /\ req[r2].pre = NoDoc /\ FindOne(req[r2].user) = req[r2].graph

\* a node without its coordinates and its timestamp
Unplaced(n) == [n EXCEPT !.x = 0, !.y = 0, !.updatedAt = 0]

\* C40: calculateCluster changes only the x and y of the nodes the peer
\* response names: the other fields of every node, the coordinates of every
\* node the response does not name, the sequence of nodes and the edges are as
\* before; when the peer call fails the document is not modified at all.
C40_ClusterFrame ==
    \A r \in Reqs :
        (Latest(r) /\ req[r].op = "calculateCluster")
        => LET d == FindOne(req[r].user)
               pre == req[r].pre
           IN  /\ req[r].peerErr => (req[r].out = "threw" /\ d = pre)
               /\ d.edges = pre.edges
               /\ Len(d.nodes) = Len(pre.nodes)
               /\ \A i \in 1..Len(pre.nodes) :
                     /\ Unplaced(d.nodes[i]) = Unplaced(pre.nodes[i])
                     /\ (req[r].out # "ok" \/ Named(r, pre.nodes[i].id) = {})
                           => d.nodes[i] = pre.nodes[i]

\* C40 witness: a calculateCluster whose peer call failed, then one that moved
\* a node and left in place a node with coordinates that the response did not name
C40_Witness ==
    \E r1, r2 \in Reqs :
        /\ r1 < r2 /\ Latest(r2) /\ req[r1].user = req[r2].user
        /\ req[r1].op = "calculateCluster" /\ req[r1].peerErr
        /\ req[r2].op = "calculateCluster" /\ req[r2].out = "ok"
        /\ LET d == FindOne(req[r2].user)
               pre == req[r2].pre
           IN  /\ pre.edges # <<>>
               /\ \E i \in 1..Len(pre.nodes) : d.nodes[i].x # pre.nodes[i].x
               /\ \E i \in 1..Len(pre.nodes) :
                     /\ Named(r2, pre.nodes[i].id) = {}
                     /\ pre.nodes[i].x # 0 /\ d.nodes[i] = pre.nodes[i]

====
